---- MODULE Spec2Model ----
(***************************************************************************)
(* Fan-out flight search of one-flight: FlightSearchService.search in its  *)
(* two revisions (the agent-based one, flight-search.service.ts 12-259,    *)
(* and the directional one, 276-462) and searchFlightsViaKiwiMcp.          *)
(***************************************************************************)
EXTENDS Integers, Sequences, FiniteSets, TLC

(* ------------------------------ bounds --------------------------------- *)

\* provider calls one search may fan out to (guard of the search actions)
MaxCalls == 2
\* flight records the provider returns over one whole search
MaxFlights == 3
\* length of an airport list in the pair-expansion specification
MaxList == 2

Origins == {"MXP", "LIN"}
Dests == {"BCN", "MAD"}

\* the airport lists of the orchestration specification are prefixes of these
OriginList == <<"MXP", "LIN", "BGY", "VCE">>
DestList == <<"BCN", "MAD", "AGP", "SVQ">>

Prefix(s, n) == SubSeq(s, 1, IF n < Len(s) THEN n ELSE Len(s))

\* the entry points: FlightSearchService.search in its directional ("sdk")
\* and agent-based ("agent") revisions, and searchFlightsViaKiwiMcp ("kiwi")
Impls == {"sdk", "agent", "kiwi"}

Directions == {"outbound", "return"}

SeqsUpTo(S, n) == UNION {[1..k -> S] : k \in 0..n}

(* ------------------------- flight records ------------------------------ *)

\* Values of the fields of a flight record the orchestration reads: id,
\* flyFrom, flyTo, price, departure.local and the provider's direction tag.
\* F2/F4 share their composite key and differ in id; G1/G2 have different
\* origin and destination and the same price and departure time.
Flight(id, from, to, price, local, dir) ==
  [id |-> id, flyFrom |-> from, flyTo |-> to, price |-> price,
   local |-> local, direction |-> dir]

F1 == Flight("F1", "MXP", "BCN", 120, "2025-02-15T10:00", "outbound")
F2 == Flight("F2", "MXP", "BCN", 80, "2025-02-15T07:00", "none")
F3 == Flight("F3", "LIN", "BCN", 95, "2025-02-15T07:00", "return")
F4 == Flight("F4", "MXP", "BCN", 80, "2025-02-15T07:00", "outbound")
G1 == Flight("G1", "A-B", "C", 95, "2025-02-15T07:00", "none")
G2 == Flight("G2", "A", "B-C", 95, "2025-02-15T07:00", "none")

\* what the provider has on offer during one search
Catalogues == {{F1, F2, F3}, {F2, F4, F3}, {G1, G2, F3}}

\* The composite key of the specification: the tuple of the four fields.
CompositeKey(f) == <<f.flyFrom, f.flyTo, f.price, f.local>>

(* --------------------------- pure helpers ------------------------------ *)

\* inner loop: one pair per destination, in list order
PushPairs(acc, from, flyTo) ==
  acc \o [j \in 1..Len(flyTo) |-> [from |-> from, to |-> flyTo[j]]]

RECURSIVE OuterLoop(_, _, _)
OuterLoop(acc, flyFrom, flyTo) ==
  IF flyFrom = <<>> THEN acc
  ELSE OuterLoop(PushPairs(acc, Head(flyFrom), flyTo), Tail(flyFrom), flyTo)

\* SearchPairs with the loops nested the other way round (a faulty variant)
RECURSIVE OuterLoopByDest(_, _, _)
OuterLoopByDest(acc, flyFrom, flyTo) ==
  IF flyTo = <<>> THEN acc
  ELSE OuterLoopByDest(
         acc \o [j \in 1..Len(flyFrom) |-> [from |-> flyFrom[j], to |-> Head(flyTo)]],
         flyFrom, Tail(flyTo))

SearchPairsByDest(flyFrom, flyTo) == OuterLoopByDest(<<>>, flyFrom, flyTo)

SearchPairs(flyFrom, flyTo) == OuterLoop(<<>>, flyFrom, flyTo)

\* the outbound pairs handed to the return batch as they are (a faulty
\* variant)
KeepPairs(pairs) == pairs

\* searchPairs.map((p) => ({ from: p.to, to: p.from })) (329)
SwapPairs(pairs) ==
  [i \in DOMAIN pairs |-> [from |-> pairs[i].to, to |-> pairs[i].from]]

\* `${flyFrom}-${flyTo}-${price}-${departure.local}`
UniqueKey(f) ==
  f.flyFrom \o "-" \o f.flyTo \o "-" \o ToString(f.price) \o "-" \o f.local

\* executeSingleSearch 434-452: the SDK's outbound list mapped field by field
MapSdkFlight(f) ==
  [id |-> f.id, flyFrom |-> f.flyFrom, flyTo |-> f.flyTo, price |-> f.price,
   local |-> f.local, direction |-> f.direction]

\* FlightResultSchema.parse of the agent revision: the schema has no
\* direction field and zod drops the keys it does not know
StripUnknown(f) == [f EXCEPT !.direction = "none"]

\* a push that leaves the provider's direction on the record (a faulty variant)
KeepProviderTag(f, direction) == f

\* { ...flight, direction }
Tag(f, direction) == [f EXCEPT !.direction = direction]

\* for (const results of allResults) for (const flight of results)
RECURSIVE Flatten(_)
Flatten(lists) ==
  IF lists = <<>> THEN <<>> ELSE Head(lists) \o Flatten(Tail(lists))

\* flights.push({ ...flight, direction }) (391); the agent revision pushes
\* the flight as it is (78)
Pushed(f, direction) == IF direction = "asis" THEN f ELSE Tag(f, direction)

\* the body of the two loops: a Set of seen keys, first occurrence pushed
RECURSIVE DedupLoop(_, _, _, _)
DedupLoop(flat, seenKeys, flights, direction) ==
  IF flat = <<>> THEN flights
  ELSE LET f == Head(flat)
           uniqueKey == UniqueKey(f)
       IN  IF uniqueKey \in seenKeys
           THEN DedupLoop(Tail(flat), seenKeys, flights, direction)
           ELSE DedupLoop(Tail(flat), seenKeys \cup {uniqueKey},
                          Append(flights, Pushed(f, direction)), direction)

\* (a, b) => a.price - b.price
ComparePrice(a, b) == a.price - b.price

\* Array.prototype.sort is stable: an element goes after every element the
\* comparator does not put behind it
RECURSIVE InsertSorted(_, _)
InsertSorted(sorted, x) ==
  IF sorted = <<>> THEN <<x>>
  ELSE IF ComparePrice(Head(sorted), x) <= 0
       THEN <<Head(sorted)>> \o InsertSorted(Tail(sorted), x)
       ELSE <<x>> \o sorted

\* a sort that puts an element before its equals (a faulty variant)
RECURSIVE InsertUnstable(_, _)
InsertUnstable(sorted, x) ==
  IF sorted = <<>> THEN <<x>>
  ELSE IF ComparePrice(Head(sorted), x) < 0
       THEN <<Head(sorted)>> \o InsertUnstable(Tail(sorted), x)
       ELSE <<x>> \o sorted

RECURSIVE SortUnstable(_)
SortUnstable(flights) ==
  IF flights = <<>> THEN <<>>
  ELSE InsertUnstable(SortUnstable(SubSeq(flights, 1, Len(flights) - 1)),
                      flights[Len(flights)])

RECURSIVE SortByPrice(_)
SortByPrice(flights) ==
  IF flights = <<>> THEN <<>>
  ELSE InsertSorted(SortByPrice(SubSeq(flights, 1, Len(flights) - 1)),
                    flights[Len(flights)])

(* ------------------------------ state ---------------------------------- *)

VARIABLES
  catalogue,   \* the flights the provider has on offer
  impl,        \* which revision of the service handles the request
  input,       \* FlightSearchInput: flyFrom, flyTo, roundTrip (returnDate set)
  phase,       \* of search(): "idle", "searching", "done", "error"
  pairs,       \* per direction, the search pairs handed to the batch
  status,      \* per call: "started", "pending", "settled", "rejected"
  calls,       \* per call: provider search calls issued so far
  resp,        \* per call: what the provider answered
  allResults,  \* per direction: the slots Promise.all fills
  dirState,    \* per direction batch: "idle", "waiting", "done", "rejected"
  merged,      \* per direction: the deduplicated list before the sort
  out,         \* per direction: the list the batch returned
  response,    \* what search() returned
  error,       \* the message of the error search() threw, "none" if none
  candidates,        \* parseAndValidateResults: flights, ids filled in place
  flightIndex,       \* parseAndValidateResults: the counter of the loop
  validatedFlights,  \* parseAndValidateResults: the list being built
  cursor,            \* parseAndValidateResults: the candidate the loop is at
  now,               \* Date.now(), in milliseconds after Epoch
  vphase,            \* parseAndValidateResults: "idle", "validating", "returned"
  output,            \* enrichOutputWithDeepLinks: its argument
  enriched,          \* enrichOutputWithDeepLinks: what it returned
  config,            \* FlightSearchService.config: "null" or "set"
  isInitialized,     \* smart-search module state: the one-shot flag
  basePath,          \* smart-search module state: where the agent is loaded from
  schemaCalls,       \* calls of initializeFlightSchemas() made so far
  initOutcome,       \* of the last initializeSmartSearch: "none", "returned", "threw"
  invocation,        \* the calls of smartFlightSearch made so far
  sphase,            \* of the call: "idle", "executing", "success", "failure", "threw"
  startTime,         \* smartFlightSearch: Date.now() at line 211
  clock,             \* milliseconds gone by
  executes,          \* delegated execute() calls of the current call
  result,            \* what execute() resolved with
  exception,         \* what execute() threw
  envelope,          \* the SmartSearchResult returned to the caller
  agentData,         \* parseAndValidateResults: its argument (response, steps)
  extracted          \* the candidate list after extraction and fallback

\* the state of parseAndValidateResults and of enrichOutputWithDeepLinks
valVars == <<candidates, flightIndex, validatedFlights, cursor, now, vphase>>
enrichVars == <<output, enriched>>
smartVars == <<config, isInitialized, basePath, schemaCalls, initOutcome, invocation, sphase,
               startTime, clock, executes, result, exception, envelope>>
extractVars == <<agentData, extracted>>

vars == <<catalogue, impl, input, phase, pairs, status, calls, resp, allResults,
          dirState, merged, out, response, error, valVars, enrichVars,
          smartVars, extractVars>>

NoOutput == [tripType |-> "none"]

\* no validation and no enrichment under way
ValIdle ==
  /\ candidates = <<>>
  /\ flightIndex = 0
  /\ validatedFlights = <<>>
  /\ cursor = 1
  /\ now = 0
  /\ vphase = "idle"

EnrichIdle ==
  /\ output = NoOutput
  /\ enriched = NoOutput

NoResult == [kind |-> "none"]
NoException == [kind |-> "none"]
NoEnvelope == [kind |-> "none"]

\* FlightSearchService configured, no call of smartFlightSearch made
SmartIdle ==
  /\ config = "set"
  /\ isInitialized = FALSE
  /\ basePath = ""
  /\ schemaCalls = 0
  /\ initOutcome = "none"
  /\ invocation = 0
  /\ sphase = "idle"
  /\ startTime = 0
  /\ clock = 0
  /\ executes = 0
  /\ result = NoResult
  /\ exception = NoException
  /\ envelope = NoEnvelope

NoAgentData == [kind |-> "none"]
NoExtraction == [kind |-> "none"]

\* no extraction under way
ExtractIdle ==
  /\ agentData = NoAgentData
  /\ extracted = NoExtraction

NoAnswer == [kind |-> "none", data |-> <<>>]
EmptySlot == [filled |-> FALSE, flights |-> <<>>]
NoResponse == [tripType |-> "none"]

\* the lists of at most n offers, an offer listed once
OfferLists(n) ==
  {fs \in SeqsUpTo(catalogue, n) :
     \A j, k \in DOMAIN fs : j # k => fs[j] # fs[k]}

\* what the provider can answer to one call: a thrown error, a result without
\* success or output, or an output whose outbound list holds the records
Outcomes(room) ==
  {[kind |-> "throw", data |-> <<>>], [kind |-> "nodata", data |-> <<>>]}
    \cup {[kind |-> "ok", data |-> fs] : fs \in OfferLists(room)}

Returned(d) == Flatten([i \in DOMAIN resp[d] |-> resp[d][i].data])
TotalReturned == Len(Returned("outbound")) + Len(Returned("return"))

\* the directions a request searches
ActiveDirs ==
  IF impl = "sdk" /\ input.roundTrip THEN Directions ELSE {"outbound"}

NumCalls(i, in) ==
  IF i = "kiwi" THEN 1
  ELSE Len(in.flyFrom) * Len(in.flyTo) * (IF i = "sdk" /\ in.roundTrip THEN 2 ELSE 1)

\* the agent revision only writes returnDate into the prompt of each call, so
\* its requests are taken with returnDate unset
Requests(i, ins) ==
  {in \in ins : NumCalls(i, in) <= MaxCalls /\ (i = "agent" => ~in.roundTrip)}

\* requests over the first airports of the two lists
Inputs(n) ==
  {[flyFrom |-> Prefix(OriginList, a), flyTo |-> Prefix(DestList, b), roundTrip |-> r] :
     a \in 0..n, b \in 0..n, r \in BOOLEAN}

\* requests over every airport list of at most n entries
WideInputs(n) ==
  {[flyFrom |-> a, flyTo |-> b, roundTrip |-> r] :
     a \in SeqsUpTo(Origins, n), b \in SeqsUpTo(Dests, n), r \in BOOLEAN}

TypeOK ==
  /\ impl \in Impls
  /\ catalogue \in Catalogues
  /\ phase \in {"idle", "searching", "done", "error"}
  /\ \A d \in Directions :
       /\ dirState[d] \in {"idle", "waiting", "done", "rejected"}
       /\ Len(status[d]) = Len(pairs[d])
       /\ \A i \in DOMAIN status[d] :
            status[d][i] \in {"started", "pending", "settled", "rejected"}

Idle ==
  /\ phase = "idle"
  /\ pairs = [d \in Directions |-> <<>>]
  /\ status = [d \in Directions |-> <<>>]
  /\ calls = [d \in Directions |-> <<>>]
  /\ resp = [d \in Directions |-> <<>>]
  /\ allResults = [d \in Directions |-> <<>>]
  /\ dirState = [d \in Directions |-> "idle"]
  /\ merged = [d \in Directions |-> <<>>]
  /\ out = [d \in Directions |-> <<>>]
  /\ response = NoResponse
  /\ error = "none"

Init ==
  /\ ValIdle
  /\ EnrichIdle
  /\ SmartIdle
  /\ ExtractIdle
  /\ impl \in Impls
  /\ catalogue \in Catalogues
  /\ input \in Requests(impl, Inputs(MaxCalls))
  /\ Idle

(* ----------------------------- operations ------------------------------ *)

\* pairs.map(pair => executeSingleSearch(...)): one promise per pair
SearchPromises(ps) == [i \in DOMAIN ps |-> "started"]

\* search() up to its first await: the pairs, and the batches started
\* (directional revision 301-333/348, agent revision 37-63)
Search ==
  /\ impl \in {"sdk", "agent"}
  /\ phase = "idle"
  /\ LET searchPairs == SearchPairs(input.flyFrom, input.flyTo)
         ps == [d \in Directions |->
                  IF d \notin ActiveDirs THEN <<>>
                  ELSE IF d = "return" THEN SwapPairs(searchPairs)
                  ELSE searchPairs]
     IN  /\ pairs' = ps
         /\ status' = [d \in Directions |-> SearchPromises(ps[d])]
         /\ calls' = [d \in Directions |-> [i \in DOMAIN ps[d] |-> 0]]
         /\ resp' = [d \in Directions |-> [i \in DOMAIN ps[d] |-> NoAnswer]]
         /\ allResults' = [d \in Directions |-> [i \in DOMAIN ps[d] |-> EmptySlot]]
         /\ dirState' = [d \in Directions |->
                           IF d \in ActiveDirs THEN "waiting" ELSE "idle"]
  /\ phase' = "searching"
  /\ UNCHANGED <<valVars, enrichVars, smartVars, extractVars, catalogue, impl, input, merged, out, response, error>>

\* calls issued one at a time, the next when none is in flight (a faulty
\* variant)
IssueOneAtATime(d, i) ==
  /\ status[d][i] = "started"
  /\ \A e \in Directions : \A j \in DOMAIN status[e] : status[e][j] # "pending"

\* pairs.map((pair) => this.executeSingleSearch(...)) (376-378, 59-61) starts
\* every single search; each goes on to its provider call by itself
CanIssue(d, i) == status[d][i] = "started"

\* executeSingleSearch reaches the provider: executeFlightSearch (419-426),
\* execute(prompt) in the agent revision (134)
IssueCall(d, i) ==
  /\ i \in DOMAIN status[d]
  /\ CanIssue(d, i)
  /\ status' = [status EXCEPT ![d][i] = "pending"]
  /\ calls' = [calls EXCEPT ![d][i] = @ + 1]
  /\ UNCHANGED <<valVars, enrichVars, smartVars, extractVars, catalogue, impl, input, phase, pairs, resp, allResults, dirState,
                 merged, out, response, error>>

\* a single search that lets the provider's error escape (a faulty variant)
SingleSearchUncaught(o) ==
  IF o.kind = "throw" THEN [rejected |-> TRUE, flights |-> <<>>]
  ELSE IF o.kind = "nodata" THEN [rejected |-> FALSE, flights |-> <<>>]
  ELSE [rejected |-> FALSE,
        flights |-> [k \in DOMAIN o.data |->
                       IF impl = "sdk" THEN MapSdkFlight(o.data[k])
                       ELSE StripUnknown(o.data[k])]]

\* what executeSingleSearch resolves to: [] from the catch block (455-460,
\* 143-148) and from the no-data branch (428-431, 136-139), else the mapped
\* (agent revision: validated) flights
SingleSearchResult(o) ==
  IF o.kind = "throw" THEN [rejected |-> FALSE, flights |-> <<>>]
  ELSE IF o.kind = "nodata" THEN [rejected |-> FALSE, flights |-> <<>>]
  ELSE [rejected |-> FALSE,
        flights |-> [k \in DOMAIN o.data |->
                       IF impl = "sdk" THEN MapSdkFlight(o.data[k])
                       ELSE StripUnknown(o.data[k])]]

\* a single search that calls the provider again after a failure (a faulty
\* variant)
StatusRetrying(o, res) ==
  IF o.kind = "throw" THEN "started"
  ELSE IF res.rejected THEN "rejected" ELSE "settled"

\* the promise of a single search settles once: there is no retry
StatusAfterSettle(o, res) == IF res.rejected THEN "rejected" ELSE "settled"

\* results stored in the order the calls complete (a faulty variant)
StoreInArrivalOrder(slots, i, flights) ==
  LET free == {k \in DOMAIN slots : ~slots[k].filled}
      first == CHOOSE k \in free : \A j \in free : k <= j
  IN  [slots EXCEPT ![first] = [filled |-> TRUE, flights |-> flights]]

\* Promise.all keeps each result at the index of its promise
StoreResult(slots, i, flights) ==
  [slots EXCEPT ![i] = [filled |-> TRUE, flights |-> flights]]

SettleWith(d, i, o) ==
  LET res == SingleSearchResult(o)
      st == StatusAfterSettle(o, res)
  IN  /\ resp' = [resp EXCEPT ![d][i] = o]
      /\ status' = [status EXCEPT ![d][i] = st]
      /\ allResults' = IF st = "settled"
                       THEN [allResults EXCEPT ![d] = StoreResult(@, i, res.flights)]
                       ELSE allResults
      /\ UNCHANGED <<valVars, enrichVars, smartVars, extractVars, catalogue, impl, input, phase, pairs, calls, dirState, merged, out,
                     response, error>>

\* the provider answers one call and executeSingleSearch finishes (428-460,
\* 136-148)
Settle(d, i, o) ==
  /\ i \in DOMAIN status[d]
  /\ status[d][i] = "pending"
  /\ SettleWith(d, i, o)

\* agent revision: getModelConfig, getMcpTools or createFlightAgent throws
\* before execute is reached (118-131); the catch block returns []
AgentSetupFails(i) ==
  /\ impl = "agent"
  /\ i \in DOMAIN status["outbound"]
  /\ status["outbound"][i] = "started"
  /\ SettleWith("outbound", i, [kind |-> "throw", data |-> <<>>])

\* a join that fires on the first settled call (a faulty variant)
JoinOnFirst(d) ==
  \/ status[d] = <<>>
  \/ \E i \in DOMAIN status[d] : status[d][i] = "settled"

\* a join that waits until every call has come back with flights (a faulty
\* variant)
JoinOnFlightsOnly(d) ==
  \A i \in DOMAIN status[d] : status[d][i] = "settled" /\ resp[d][i].kind = "ok"

\* await Promise.all(searchPromises): every promise fulfilled
JoinReady(d) == \A i \in DOMAIN status[d] : status[d][i] = "settled"

\* Promise.all rejects as soon as one promise rejects
JoinRejected(d) == \E i \in DOMAIN status[d] : status[d][i] = "rejected"

SlotFlights(d) == [i \in DOMAIN allResults[d] |-> allResults[d][i].flights]

\* a seen-key set kept across the batches of a search (a faulty variant)
SharedSeenKeys(d) ==
  {UniqueKey(f) : f \in UNION {{out[e][k] : k \in DOMAIN out[e]} : e \in Directions \ {d}}}

\* const seenKeys = new Set<string>() (383)
NewSeenKeys(d) == {}

\* the two nested loops over allResults, from a given set of seen keys
MergeBatch(lists, seenKeys, direction) ==
  DedupLoop(Flatten(lists), seenKeys, <<>>, direction)

\* executeDirectionalSearch after the join: flatten, deduplicate, tag (382-394)
DirectionalMerge(d) == MergeBatch(SlotFlights(d), NewSeenKeys(d), d)

\* agent revision 65-82: a single result list is taken as it is
AgentMergeOf(lists) ==
  IF Len(lists) = 1 THEN lists[1] ELSE MergeBatch(lists, {}, "asis")

AgentMerge == AgentMergeOf(SlotFlights("outbound"))

\* executeDirectionalSearch 380-397: join, merge, sort, return
DirJoin(d) ==
  /\ impl = "sdk"
  /\ dirState[d] = "waiting"
  /\ JoinReady(d) \/ JoinRejected(d)
  /\ IF JoinRejected(d)
     THEN /\ dirState' = [dirState EXCEPT ![d] = "rejected"]
          /\ UNCHANGED <<merged, out>>
     ELSE /\ dirState' = [dirState EXCEPT ![d] = "done"]
          /\ merged' = [merged EXCEPT ![d] = DirectionalMerge(d)]
          /\ out' = [out EXCEPT ![d] = SortByPrice(DirectionalMerge(d))]
  /\ UNCHANGED <<valVars, enrichVars, smartVars, extractVars, catalogue, impl, input, phase, pairs, status, calls, resp, allResults,
                 response, error>>

\* search() 326-365: the batches joined, the response built; a rejected batch
\* is logged and rethrown
Return ==
  /\ impl = "sdk"
  /\ phase = "searching"
  /\ \/ \A d \in ActiveDirs : dirState[d] = "done"
     \/ \E d \in ActiveDirs : dirState[d] = "rejected"
  /\ IF \E d \in ActiveDirs : dirState[d] = "rejected"
     THEN phase' = "error" /\ error' = "provider error" /\ UNCHANGED response
     ELSE /\ phase' = "done"
          /\ error' = "none"
          /\ response' =
               IF input.roundTrip
               THEN [tripType |-> "round-trip", outbound |-> out["outbound"],
                     return |-> out["return"]]
               ELSE [tripType |-> "one-way", flights |-> out["outbound"]]
  /\ UNCHANGED <<valVars, enrichVars, smartVars, extractVars, catalogue, impl, input, pairs, status, calls, resp, allResults,
                 dirState, merged, out>>

\* agent revision, search() 63-99: join, merge, sort, return the list
AgentJoin ==
  /\ impl = "agent"
  /\ phase = "searching"
  /\ JoinReady("outbound") \/ JoinRejected("outbound")
  /\ IF JoinRejected("outbound")
     THEN /\ phase' = "error"
          /\ error' = "provider error"
          /\ dirState' = [dirState EXCEPT !["outbound"] = "rejected"]
          /\ UNCHANGED <<merged, out, response>>
     ELSE /\ phase' = "done"
          /\ dirState' = [dirState EXCEPT !["outbound"] = "done"]
          /\ merged' = [merged EXCEPT !["outbound"] = AgentMerge]
          /\ out' = [out EXCEPT !["outbound"] = SortByPrice(AgentMerge)]
          /\ response' = [tripType |-> "list", flights |-> SortByPrice(AgentMerge)]
          /\ error' = "none"
  /\ UNCHANGED <<valVars, enrichVars, smartVars, extractVars, catalogue, impl, input, pairs, status, calls, resp, allResults>>

\* searchFlightsViaKiwiMcp 54-87: the empty-list test, then one fetch for
\* the first origin and the first destination
KiwiSearch ==
  /\ impl = "kiwi"
  /\ phase = "idle"
  /\ IF Len(input.flyFrom) = 0 \/ Len(input.flyTo) = 0
     THEN /\ phase' = "error"
          /\ error' = "flyFrom and flyTo arrays must have at least one element"
          /\ UNCHANGED <<pairs, status, calls, resp, allResults, dirState>>
     ELSE /\ phase' = "searching"
          /\ pairs' = [pairs EXCEPT !["outbound"] =
                         <<[from |-> input.flyFrom[1], to |-> input.flyTo[1]]>>]
          /\ status' = [status EXCEPT !["outbound"] = <<"pending">>]
          /\ calls' = [calls EXCEPT !["outbound"] = <<1>>]
          /\ resp' = [resp EXCEPT !["outbound"] = <<NoAnswer>>]
          /\ allResults' = [allResults EXCEPT !["outbound"] = <<EmptySlot>>]
          /\ dirState' = [dirState EXCEPT !["outbound"] = "waiting"]
          /\ UNCHANGED error
  /\ UNCHANGED <<valVars, enrichVars, smartVars, extractVars, catalogue, impl, input, merged, out, response>>

\* searchFlightsViaKiwiMcp 89-110: a failed fetch, a bad status or bad JSON is
\* logged and rethrown; a response without text gives []; else the parsed list
KiwiSettle(o) ==
  /\ impl = "kiwi"
  /\ phase = "searching"
  /\ resp' = [resp EXCEPT !["outbound"][1] = o]
  /\ IF o.kind = "throw"
     THEN /\ phase' = "error"
          /\ error' = "provider error"
          /\ status' = [status EXCEPT !["outbound"][1] = "rejected"]
          /\ dirState' = [dirState EXCEPT !["outbound"] = "rejected"]
          /\ UNCHANGED <<allResults, out, response>>
     ELSE /\ phase' = "done"
          /\ status' = [status EXCEPT !["outbound"][1] = "settled"]
          /\ dirState' = [dirState EXCEPT !["outbound"] = "done"]
          /\ allResults' = [allResults EXCEPT !["outbound"] = StoreResult(@, 1, o.data)]
          /\ out' = [out EXCEPT !["outbound"] = o.data]
          /\ response' = [tripType |-> "list", flights |-> o.data]
          /\ UNCHANGED error
  /\ UNCHANGED <<valVars, enrichVars, smartVars, extractVars, catalogue, impl, input, pairs, calls, merged>>

Next ==
  \/ Search
  \/ \E d \in Directions, i \in 1..MaxCalls : IssueCall(d, i)
  \/ \E d \in Directions, i \in 1..MaxCalls :
       \E o \in Outcomes(MaxFlights - TotalReturned) : Settle(d, i, o)
  \/ \E i \in 1..MaxCalls : AgentSetupFails(i)
  \/ \E d \in Directions : DirJoin(d)
  \/ Return
  \/ AgentJoin
  \/ KiwiSearch
  \/ \E o \in Outcomes(MaxFlights) : KiwiSettle(o)

Spec == Init /\ [][Next]_vars

\* Pair expansion on its own: every request over airport lists of at most
\* MaxList entries, and search() up to the point where the batches start.
InitPairs ==
  /\ ValIdle
  /\ EnrichIdle
  /\ SmartIdle
  /\ ExtractIdle
  /\ impl \in {"sdk", "agent"}
  /\ catalogue = {F1, F2, F3}
  /\ input \in WideInputs(MaxList)
  /\ Idle

NextPairs == Search

SpecPairs == InitPairs /\ [][NextPairs]_vars

\* The directional revision on two origins and one destination, one way or
\* round trip: two calls in each batch.
InitBatches ==
  /\ ValIdle
  /\ EnrichIdle
  /\ SmartIdle
  /\ ExtractIdle
  /\ impl = "sdk"
  /\ catalogue = {F1}
  /\ input \in {[flyFrom |-> <<"MXP", "LIN">>, flyTo |-> <<"BCN">>, roundTrip |-> r] :
                  r \in BOOLEAN}
  /\ Idle

IssueSome == \E d \in Directions : \E i \in DOMAIN status[d] : IssueCall(d, i)

SettleSome ==
  \E d \in Directions : \E i \in DOMAIN status[d] :
    \E o \in Outcomes(MaxFlights - TotalReturned) : Settle(d, i, o)

JoinSome == \E d \in Directions : DirJoin(d)

NextBatches ==
  \/ Search
  \/ IssueSome
  \/ SettleSome
  \/ JoinSome
  \/ Return

SpecBatches == InitBatches /\ [][NextBatches]_vars

\* The same search when every provider call that was issued settles, and the
\* continuations of the promises are run: a started executeSingleSearch goes
\* on to its provider call, a batch whose calls have all settled is joined,
\* and search() returns once its batches are done.
FairBatches ==
  /\ SpecBatches
  /\ WF_vars(IssueSome)
  /\ WF_vars(SettleSome)
  /\ WF_vars(JoinSome)
  /\ WF_vars(Return)

(* ---------------------------- properties -------------------------------- *)

ServiceImpl == impl \in {"sdk", "agent"}

Failed(o) == o.kind \in {"throw", "nodata"}

Range(seq) == {seq[k] : k \in DOMAIN seq}

Prices(seq) == [k \in DOMAIN seq |-> seq[k].price]

\* the records a call brought back, as the revision hands them on
Normal(f) == IF impl = "agent" THEN StripUnknown(f) ELSE f

ReturnedRecords(d, i) ==
  IF resp[d][i].kind = "ok"
  THEN [k \in DOMAIN resp[d][i].data |-> Normal(resp[d][i].data[k])]
  ELSE <<>>

\* the records of a batch in pair-list order, then in-pair order
Flat(d) == Flatten([i \in DOMAIN resp[d] |-> ReturnedRecords(d, i)])

\* the answer of a call with a failure replaced by an empty result
AsEmpty(o) == IF Failed(o) THEN [kind |-> "ok", data |-> <<>>] ELSE o

\* the list a batch returns when its calls answer as(resp[d][i])
OutputIfEmpty(d) ==
  LET lists == [i \in DOMAIN resp[d] |-> SingleSearchResult(AsEmpty(resp[d][i])).flights]
  IN  SortByPrice(IF impl = "sdk" THEN MergeBatch(lists, {}, d)
                  ELSE AgentMergeOf(lists))

\* C1: a failing call of one pair (a throw, or a result without data) never
\* makes search() raise or a sibling call stop, and the list returned is the
\* one the search returns when the failed pair answers with an empty result.
C1_PartialFailureAbsorbed ==
  ServiceImpl =>
    /\ phase # "error"
    /\ \A d \in Directions : \A i \in DOMAIN status[d] : status[d][i] # "rejected"
    /\ phase = "done" =>
         \A d \in ActiveDirs :
           /\ \A i \in DOMAIN status[d] : status[d][i] = "settled"
           /\ out[d] = OutputIfEmpty(d)

C1_Witness ==
  /\ impl = "sdk"
  /\ phase = "done"
  /\ \E i, j \in DOMAIN resp["outbound"] :
       /\ resp["outbound"][i].kind = "throw"
       /\ resp["outbound"][j].kind = "ok"
       /\ resp["outbound"][j].data # <<>>
  /\ Len(response.flights) > 0

\* C2: in the list of a batch every composite key (origin, destination, price,
\* departure time) of the returned records has exactly one record, the first
\* one in pair-list order then in-pair order, for any number of pairs.
C2_OneRecordPerCompositeKey ==
  ServiceImpl =>
    \A d \in ActiveDirs :
      dirState[d] = "done" =>
        \A p \in DOMAIN Flat(d) :
          LET key == CompositeKey(Flat(d)[p])
              first == CHOOSE q \in DOMAIN Flat(d) :
                         /\ CompositeKey(Flat(d)[q]) = key
                         /\ \A r \in 1..(q - 1) : CompositeKey(Flat(d)[r]) # key
              kept == {k \in DOMAIN out[d] : CompositeKey(out[d][k]) = key}
              expected == IF impl = "sdk" THEN Tag(Flat(d)[first], d)
                          ELSE Flat(d)[first]
          IN  /\ Cardinality(kept) = 1
              /\ \A k \in kept : out[d][k] = expected

C2_Witness ==
  /\ impl = "agent"
  /\ phase = "done"
  /\ Len(pairs["outbound"]) = 1
  /\ Len(out["outbound"]) = 2
  /\ CompositeKey(out["outbound"][1]) = CompositeKey(out["outbound"][2])

\* C3: the list a batch returns is the stable ascending sort by price of the
\* deduplicated list: prices never decrease, records of equal price keep the
\* order of the deduplicated list; prices [120, 80] and [95] give [80, 95, 120].
C3_StableAscendingByPrice ==
  ServiceImpl =>
    \A d \in Directions :
      dirState[d] = "done" =>
        /\ Len(out[d]) = Len(merged[d])
        /\ \A k \in 1..(Len(out[d]) - 1) : out[d][k].price <= out[d][k + 1].price
        /\ \A f \in Range(merged[d]) :
             LET SamePrice(g) == g.price = f.price
             IN  SelectSeq(out[d], SamePrice) = SelectSeq(merged[d], SamePrice)
        /\ ( /\ Len(resp[d]) = 2
             /\ Prices(ReturnedRecords(d, 1)) = <<120, 80>>
             /\ Prices(ReturnedRecords(d, 2)) = <<95>> )
           => Prices(out[d]) = <<80, 95, 120>>

C3_Witness ==
  /\ impl = "sdk"
  /\ phase = "done"
  /\ Len(resp["outbound"]) = 2
  /\ Prices(ReturnedRecords("outbound", 1)) = <<120, 80>>
  /\ Prices(ReturnedRecords("outbound", 2)) = <<95>>
  /\ Prices(response.flights) = <<80, 95, 120>>

\* the list of a batch as pair-list order and price alone determine it
InPairOrder(d) ==
  LET lists == [i \in DOMAIN resp[d] |-> ReturnedRecords(d, i)]
  IN  SortByPrice(IF impl = "sdk" THEN MergeBatch(lists, {}, d)
                  ELSE AgentMergeOf(lists))

\* C4: the result does not depend on the order in which the calls complete:
\* each result sits at the index of its pair whenever it arrives, and the list
\* returned is the one pair-list order and price determine.
C4_CompletionOrderIrrelevant ==
  ServiceImpl =>
    \A d \in Directions :
      /\ \A i \in DOMAIN allResults[d] :
           /\ allResults[d][i].filled <=> status[d][i] = "settled"
           /\ allResults[d][i].filled => allResults[d][i].flights = ReturnedRecords(d, i)
      /\ dirState[d] = "done" => out[d] = InPairOrder(d)

C4_Witness ==
  /\ impl = "sdk"
  /\ Len(status["outbound"]) = 2
  /\ status["outbound"][1] = "pending"
  /\ allResults["outbound"][2].filled
  /\ allResults["outbound"][2].flights # <<>>

\* C5: a batch has no result while one of its calls is unsettled: the merged
\* list exists only once every call of the direction has settled.
C5_JoinWaitsForAll ==
  ServiceImpl =>
    /\ \A d \in Directions :
         dirState[d] = "done" =>
           \A i \in DOMAIN status[d] : status[d][i] = "settled"
    /\ \A d \in Directions :
         dirState[d] = "waiting" => out[d] = <<>> /\ merged[d] = <<>>
    /\ phase = "done" => \A d \in ActiveDirs : dirState[d] = "done"

C5_Witness ==
  /\ impl = "sdk"
  /\ \E d \in Directions :
       /\ dirState[d] = "done"
       /\ Len(status[d]) = 2
       /\ out[d] # <<>>

\* C6: one provider call is issued for each pair of each direction, never a
\* second one, and a failed call is not retried.
C6_OneCallPerPair ==
  /\ \A d \in Directions :
       /\ Len(calls[d]) = Len(pairs[d])
       /\ \A i \in DOMAIN calls[d] : calls[d][i] <= 1
  /\ (impl = "sdk") =>
       \A d \in Directions :
         /\ d \notin ActiveDirs => calls[d] = <<>>
         /\ \A i \in DOMAIN calls[d] :
              status[d][i] \in {"pending", "settled"} <=> calls[d][i] = 1
         /\ dirState[d] = "done" => \A i \in DOMAIN calls[d] : calls[d][i] = 1

C6_Witness ==
  /\ impl = "sdk"
  /\ phase = "done"
  /\ \E d \in Directions :
       /\ Len(calls[d]) = 2
       /\ \E i \in DOMAIN resp[d] : resp[d][i].kind = "throw"
       /\ \A i \in DOMAIN calls[d] : calls[d][i] = 1

\* the cross product, origins outermost
CrossProduct(flyFrom, flyTo) ==
  [k \in 1..(Len(flyFrom) * Len(flyTo)) |->
     [from |-> flyFrom[((k - 1) \div Len(flyTo)) + 1],
      to |-> flyTo[((k - 1) % Len(flyTo)) + 1]]]

\* C7: search builds the N x M pairs of the cross product, outer loop over the
\* origins, inner loop over the destinations, duplicates kept.
C7_PairsAreCrossProduct ==
  (ServiceImpl /\ phase # "idle") =>
    /\ Len(pairs["outbound"]) = Len(input.flyFrom) * Len(input.flyTo)
    /\ pairs["outbound"] = CrossProduct(input.flyFrom, input.flyTo)

C7_Witness ==
  /\ phase = "searching"
  /\ Len(input.flyFrom) = 2
  /\ Len(input.flyTo) = 2
  /\ input.flyFrom[1] # input.flyFrom[2]
  /\ input.flyTo[1] # input.flyTo[2]
  /\ Len(pairs["outbound"]) = 4

\* C8: a search with an empty origin or destination list fails with an
\* invalid-input error before any call is issued.
C8_EmptyListRejected ==
  (phase # "idle" /\ (Len(input.flyFrom) = 0 \/ Len(input.flyTo) = 0)) =>
    /\ phase = "error"
    /\ error # "none"
    /\ \A d \in Directions : calls[d] = <<>>

C8_Witness ==
  /\ impl = "sdk"
  /\ Len(input.flyFrom) = 0
  /\ Len(input.flyTo) > 0
  /\ phase = "done"
  /\ error = "none"
  /\ response.tripType = "one-way"
  /\ response.flights = <<>>

\* C9: two returned records whose composite keys differ in a field are both
\* retained in the list of the batch.
C9_DistinctKeysBothRetained ==
  ServiceImpl =>
    \A d \in ActiveDirs :
      dirState[d] = "done" =>
        \A f, g \in Range(Flat(d)) :
          CompositeKey(f) # CompositeKey(g) =>
            /\ \E k \in DOMAIN out[d] : CompositeKey(out[d][k]) = CompositeKey(f)
            /\ \E k \in DOMAIN out[d] : CompositeKey(out[d][k]) = CompositeKey(g)

C9_Witness ==
  /\ impl = "sdk"
  /\ phase = "done"
  /\ \E f, g \in Range(Flat("outbound")) :
       /\ CompositeKey(f) # CompositeKey(g)
       /\ UniqueKey(f) = UniqueKey(g)
       /\ Len(out["outbound"]) = 1

\* C10: the two batches of a round trip are deduplicated independently: a
\* record is missing from the list of its batch only when an earlier record of
\* the same batch has its key, whatever the other batch holds.
C10_DirectionsIndependent ==
  (impl = "sdk" /\ input.roundTrip) =>
    \A d \in Directions :
      dirState[d] = "done" =>
        \A p \in DOMAIN Flat(d) :
          (\A q \in 1..(p - 1) : UniqueKey(Flat(d)[q]) # UniqueKey(Flat(d)[p]))
            => Tag(Flat(d)[p], d) \in Range(out[d])

C10_Witness ==
  /\ impl = "sdk"
  /\ phase = "done"
  /\ input.roundTrip
  /\ \E k \in DOMAIN response.outbound : \E m \in DOMAIN response.return :
       CompositeKey(response.outbound[k]) = CompositeKey(response.return[m])

\* C11: every record of the list a directional batch returns carries the
\* direction of the batch: 'outbound' in the outbound list and in a one-way
\* result, 'return' in the return list, whatever the provider put on it.
C11_DirectionTagOfBatch ==
  (impl = "sdk") =>
    /\ \A d \in Directions :
         \A k \in DOMAIN out[d] : out[d][k].direction = d
    /\ (phase = "done" /\ response.tripType = "one-way") =>
         \A k \in DOMAIN response.flights : response.flights[k].direction = "outbound"
    /\ (phase = "done" /\ response.tripType = "round-trip") =>
         /\ \A k \in DOMAIN response.outbound : response.outbound[k].direction = "outbound"
         /\ \A k \in DOMAIN response.return : response.return[k].direction = "return"

C11_Witness ==
  /\ impl = "sdk"
  /\ phase = "done"
  /\ response.tripType = "round-trip"
  /\ \E i \in DOMAIN resp["outbound"] : \E k \in DOMAIN resp["outbound"][i].data :
       resp["outbound"][i].data[k].direction = "return"
  /\ \E i \in DOMAIN resp["return"] : \E k \in DOMAIN resp["return"][i].data :
       resp["return"][i].data[k].direction \in {"outbound", "none"}
  /\ response.outbound # <<>>
  /\ response.return # <<>>

(* ------------- parseAndValidateResults (agent revision) ---------------- *)

\* candidates in one agent answer
MaxCandidates == 2
\* milliseconds Date.now() advances during one validation
MaxTicks == 1

\* Strings the id is built from are the sequences of their UTF-8 bytes.
Dash == <<45>>
Undefined == <<117, 110, 100, 101, 102, 105, 110, 101, 100>>
KiwiPrefix == <<107, 105, 119, 105, 45>>
BytesMXP == <<77, 88, 80>>
BytesLIN == <<76, 73, 78>>
BytesBCN == <<66, 67, 78>>
\* "AB>" and "AB?": the third byte of a group gives '+' and '/' in base64
BytesABgt == <<65, 66, 62>>
BytesABqm == <<65, 66, 63>>
BytesF1 == <<70, 49>>
BytesF5 == <<70, 53>>
BytesF6 == <<70, 54>>

\* String(n) of a non-negative integer
RECURSIVE DecimalDigits(_)
DecimalDigits(n) ==
  IF n < 10 THEN <<48 + n>> ELSE DecimalDigits(n \div 10) \o <<48 + (n % 10)>>

\* `${n}` of an integer
NumberText(n) == IF n < 0 THEN Dash \o DecimalDigits(0 - n) ELSE DecimalDigits(n)

\* `${Date.now()}` at t milliseconds after 1700000000000 (t below 10)
EpochPrefix == <<49, 55, 48, 48, 48, 48, 48, 48, 48, 48, 48, 48>>
NowText(t) == EpochPrefix \o DecimalDigits(t)

\* the character of a base64 digit: A-Z, a-z, 0-9, '+', '/'
Base64Char(v) ==
  IF v < 26 THEN 65 + v
  ELSE IF v < 52 THEN 97 + (v - 26)
  ELSE IF v < 62 THEN 48 + (v - 52)
  ELSE IF v = 62 THEN 43 ELSE 47

\* Buffer.from(s).toString('base64'): three bytes to four digits, '=' padding
RECURSIVE Base64(_)
Base64(b) ==
  IF Len(b) = 0 THEN <<>>
  ELSE IF Len(b) = 1
  THEN <<Base64Char(b[1] \div 4), Base64Char((b[1] % 4) * 16), 61, 61>>
  ELSE IF Len(b) = 2
  THEN <<Base64Char(b[1] \div 4), Base64Char((b[1] % 4) * 16 + (b[2] \div 16)),
         Base64Char((b[2] % 16) * 4), 61>>
  ELSE <<Base64Char(b[1] \div 4), Base64Char((b[1] % 4) * 16 + (b[2] \div 16)),
         Base64Char((b[2] % 16) * 4 + (b[3] \div 64)), Base64Char(b[3] % 64)>>
       \o Base64(SubSeq(b, 4, Len(b)))

\* .replace(/[+/=]/g, '')
ReplaceReserved(chars) ==
  LET Kept(c) == c \notin {43, 47, 61}
  IN  SelectSeq(chars, Kept)

\* `${rawFlight.flyFrom}`: an absent key reads undefined
FromText(rawFlight) ==
  IF "flyFrom" \in rawFlight.absent THEN Undefined ELSE rawFlight.flyFrom
ToText(rawFlight) ==
  IF "flyTo" \in rawFlight.absent THEN Undefined ELSE rawFlight.flyTo
PriceText(rawFlight) ==
  IF "price" \in rawFlight.absent THEN Undefined ELSE NumberText(rawFlight.price)

\* a unique string that leaves the loop counter out (a faulty variant)
UniqueStrNoIndex(rawFlight, index, t) ==
  FromText(rawFlight) \o Dash \o ToText(rawFlight) \o Dash \o PriceText(rawFlight)
    \o Dash \o NowText(t)

\* `${flyFrom}-${flyTo}-${price}-${flightIndex}-${Date.now()}` (197)
UniqueStr(rawFlight, index, t) ==
  FromText(rawFlight) \o Dash \o ToText(rawFlight) \o Dash \o PriceText(rawFlight)
    \o Dash \o DecimalDigits(index) \o Dash \o NowText(t)

\* `kiwi-${Buffer.from(uniqueStr).toString('base64').replace(/[+/=]/g, '')}`
SynthId(rawFlight, index, t) ==
  KiwiPrefix \o ReplaceReserved(Base64(UniqueStr(rawFlight, index, t)))

\* !rawFlight.id: the key is absent or the empty string
LacksId(rawFlight) == "id" \in rawFlight.absent \/ rawFlight.id = <<>>

\* FlightResultSchema: the keys without .optional()
RequiredKeys ==
  {"flyFrom", "flyTo", "cityFrom", "cityTo", "departure", "arrival",
   "totalDurationInSeconds", "price", "deepLink"}
\* FlightResultSchema: id, durationInSeconds, currency (default 'EUR'), layovers
OptionalKeys == {"id", "durationInSeconds", "currency", "layovers"}

\* FlightResultSchema.parse does not throw
SchemaAccepts(rawFlight) == rawFlight.absent \cap RequiredKeys = {}

\* what FlightResultSchema.parse returns: currency defaults to 'EUR'
SchemaParse(rawFlight) ==
  [rawFlight EXCEPT
     !.currency = IF "currency" \in rawFlight.absent THEN "EUR" ELSE @,
     !.absent = @ \ {"currency"}]

\* A candidate of the agent's answer: an object with some keys absent, or null.
Candidate(id, from, to, price, local, absent) ==
  [kind |-> "object", id |-> id, flyFrom |-> from, flyTo |-> to, price |-> price,
   local |-> local, currency |-> "USD", absent |-> absent]

NullCandidate ==
  [kind |-> "null", id |-> <<>>, flyFrom |-> <<>>, flyTo |-> <<>>, price |-> 0,
   local |-> "", currency |-> "", absent |-> RequiredKeys \cup OptionalKeys]

\* complete with a provider id; the same id on another offer; no id; no id and
\* bytes that give reserved base64 digits; no currency; no deepLink and no
\* id; a negative price
CandidateSet ==
  {Candidate(BytesF1, BytesMXP, BytesBCN, 120, "2025-02-15T10:00", {"layovers"}),
   Candidate(BytesF1, BytesMXP, BytesBCN, 95, "2025-02-15T12:00", {}),
   Candidate(<<>>, BytesMXP, BytesBCN, 80, "2025-02-15T07:00", {"id"}),
   Candidate(<<>>, BytesABgt, BytesBCN, 80, "2025-02-15T07:00", {"id", "layovers"}),
   Candidate(<<>>, BytesABqm, BytesBCN, 80, "2025-02-15T07:00", {}),
   Candidate(BytesF5, BytesLIN, BytesBCN, 95, "2025-02-15T07:00", {"currency"}),
   Candidate(<<>>, BytesLIN, BytesBCN, 95, "2025-02-15T09:00", {"id", "deepLink"}),
   Candidate(BytesF6, BytesLIN, BytesBCN, 0 - 5, "2025-02-15T07:00", {}),
   NullCandidate}

\* the catch block clearing what was validated so far (a faulty variant)
DropValidated(validated) == <<>>

\* catch { /* Skip invalid flights */ } (204-206)
SkipInvalid(validated) == validated

\* one pass of the loop body (193-207)
ValidateCandidate ==
  /\ vphase = "validating"
  /\ cursor <= Len(candidates)
  /\ LET flight == candidates[cursor]
         rawFlight == IF LacksId(flight)
                      THEN [flight EXCEPT !.id = SynthId(flight, flightIndex, now),
                                          !.absent = @ \ {"id"}]
                      ELSE flight
     IN  IF flight.kind = "null"
         THEN \* rawFlight.id throws a TypeError, caught at 204
              /\ validatedFlights' = SkipInvalid(validatedFlights)
              /\ UNCHANGED <<candidates, flightIndex>>
         ELSE /\ candidates' = [candidates EXCEPT ![cursor] = rawFlight]
              /\ flightIndex' = flightIndex + 1
              /\ validatedFlights' =
                   IF SchemaAccepts(rawFlight)
                   THEN Append(validatedFlights, SchemaParse(rawFlight))
                   ELSE SkipInvalid(validatedFlights)
  /\ cursor' = cursor + 1
  /\ UNCHANGED <<now, vphase, enrichVars, smartVars, extractVars, catalogue, impl, input, phase, pairs, status,
                 calls, resp, allResults, dirState, merged, out, response, error>>

\* the clock passes a millisecond between two passes of the loop
Tick ==
  /\ vphase = "validating"
  /\ now < MaxTicks
  /\ now' = now + 1
  /\ UNCHANGED <<candidates, flightIndex, validatedFlights, cursor, vphase, enrichVars, smartVars, extractVars,
                 catalogue, impl, input, phase, pairs, status, calls, resp, allResults,
                 dirState, merged, out, response, error>>

\* return validatedFlights (212), which executeSingleSearch returns (141-142)
\* and Promise.all stores
ValidateReturn ==
  /\ vphase = "validating"
  /\ cursor > Len(candidates)
  /\ vphase' = "returned"
  /\ status' = [status EXCEPT !["outbound"][1] = "settled"]
  /\ allResults' = [allResults EXCEPT !["outbound"] = StoreResult(@, 1, validatedFlights)]
  /\ UNCHANGED <<candidates, flightIndex, validatedFlights, cursor, now, enrichVars, smartVars, extractVars,
                 catalogue, impl, input, phase, pairs, calls, resp, dirState, merged, out,
                 response, error>>

\* The agent revision searching one pair, at the point where execute(prompt)
\* has answered with the candidates and parseAndValidateResults starts.
InitValidate ==
  /\ impl = "agent"
  /\ catalogue = {F1, F2, F3}
  /\ input = [flyFrom |-> <<"MXP">>, flyTo |-> <<"BCN">>, roundTrip |-> FALSE]
  /\ phase = "searching"
  /\ pairs = [d \in Directions |->
                IF d = "outbound" THEN SearchPairs(input.flyFrom, input.flyTo) ELSE <<>>]
  /\ status = [d \in Directions |-> IF d = "outbound" THEN <<"pending">> ELSE <<>>]
  /\ calls = [d \in Directions |-> IF d = "outbound" THEN <<1>> ELSE <<>>]
  /\ candidates \in SeqsUpTo(CandidateSet, MaxCandidates)
  /\ resp = [d \in Directions |->
               IF d = "outbound" THEN <<[kind |-> "ok", data |-> candidates]>> ELSE <<>>]
  /\ allResults = [d \in Directions |-> IF d = "outbound" THEN <<EmptySlot>> ELSE <<>>]
  /\ dirState = [d \in Directions |-> IF d = "outbound" THEN "waiting" ELSE "idle"]
  /\ merged = [d \in Directions |-> <<>>]
  /\ out = [d \in Directions |-> <<>>]
  /\ response = NoResponse
  /\ error = "none"
  /\ flightIndex = 0
  /\ validatedFlights = <<>>
  /\ cursor = 1
  /\ now = 0
  /\ vphase = "validating"
  /\ EnrichIdle
  /\ SmartIdle
  /\ ExtractIdle

NextValidate ==
  \/ ValidateCandidate
  \/ Tick
  \/ ValidateReturn
  \/ AgentJoin

SpecValidate == InitValidate /\ [][NextValidate]_vars

\* the candidate at position p as the agent answered it
Original(p) == resp["outbound"][1].data[p]

\* the candidates the loop has been through
Processed == SubSeq(candidates, 1, cursor - 1)

\* the loop has given the candidate at p an id
Synthesized(p) ==
  /\ p < cursor
  /\ Original(p).kind = "object"
  /\ LacksId(Original(p))

\* C12: no two records of the final list of a search have the same id,
\* whether the ids came from the provider or were synthesized.
C12_IdsUniqueInResult ==
  phase = "done" =>
    \A j, k \in DOMAIN out["outbound"] :
      j # k => out["outbound"][j].id # out["outbound"][k].id

C12_Witness ==
  /\ vphase = "returned"
  /\ phase = "done"
  /\ Len(response.flights) = 2
  /\ response.flights[1].id = response.flights[2].id
  /\ response.flights[1].price # response.flights[2].price
  /\ ~LacksId(Original(1))
  /\ ~LacksId(Original(2))

\* C13: in one validation batch every candidate without an id is given a
\* synthesized id, two such ids differ, and a synthesized id holds none of
\* the characters '+', '/', '='.
C13_SynthesizedIdsDistinct ==
  vphase # "idle" =>
    /\ \A p \in DOMAIN candidates :
         Synthesized(p) =>
           /\ ~LacksId(candidates[p])
           /\ Len(candidates[p].id) > Len(KiwiPrefix)
           /\ SubSeq(candidates[p].id, 1, Len(KiwiPrefix)) = KiwiPrefix
           /\ \A k \in DOMAIN candidates[p].id : candidates[p].id[k] \notin {43, 47, 61}
    /\ \A p, q \in DOMAIN candidates :
         (p # q /\ Synthesized(p) /\ Synthesized(q)) =>
           candidates[p].id # candidates[q].id
    /\ \A k \in DOMAIN validatedFlights : ~LacksId(validatedFlights[k])

C13_Witness ==
  /\ vphase = "returned"
  /\ now = 0
  /\ Len(candidates) = 2
  /\ Original(1) = Original(2)
  /\ LacksId(Original(1))
  /\ Len(validatedFlights) = 2
  /\ validatedFlights[1].id # validatedFlights[2].id

\* a candidate the schema accepts
IsValid(c) == c.kind = "object" /\ SchemaAccepts(c)

\* C14: validation never fails as a whole: an invalid candidate is dropped
\* without an error, every valid candidate is kept, and the validated list
\* follows the candidate list in order and is no longer than it.
C14_InvalidDroppedBatchKept ==
  vphase # "idle" =>
    /\ phase # "error"
    /\ error = "none"
    /\ LET kept == SelectSeq(Processed, IsValid)
       IN  validatedFlights = [k \in DOMAIN kept |-> SchemaParse(kept[k])]
    /\ Len(validatedFlights) <= Len(candidates)
    /\ \A p \in DOMAIN candidates :
         \/ candidates[p] = Original(p)
         \/ /\ Synthesized(p)
            /\ [candidates[p] EXCEPT !.id = Original(p).id,
                                     !.absent = Original(p).absent] = Original(p)
    /\ vphase = "returned" => cursor = Len(candidates) + 1

C14_Witness ==
  /\ vphase = "returned"
  /\ Len(candidates) = 2
  /\ IsValid(Original(1))
  /\ ~IsValid(Original(2))
  /\ Original(2).kind = "object"
  /\ Len(validatedFlights) = 1
  /\ validatedFlights[1].price = Original(1).price

\* the required fields the specification lists
SpecRequiredKeys == RequiredKeys \cup {"currency"}

Complete(c) == c.kind = "object" /\ c.absent \cap SpecRequiredKeys = {}

\* C15: a candidate is accepted only if it has every required field,
\* currency included: the validated list holds the complete candidates only.
C15_OnlyCompleteAccepted ==
  vphase # "idle" =>
    Len(validatedFlights) = Len(SelectSeq(Processed, Complete))

C15_Witness ==
  /\ vphase = "returned"
  /\ Len(candidates) = 1
  /\ "currency" \in Original(1).absent
  /\ Len(validatedFlights) = 1
  /\ validatedFlights[1].currency = "EUR"

\* C16: every record that reaches the final result has a price of at least
\* zero: a candidate with a negative price does not pass validation.
C16_PriceNonNegative ==
  /\ \A k \in DOMAIN validatedFlights : validatedFlights[k].price >= 0
  /\ phase = "done" =>
       \A k \in DOMAIN out["outbound"] : out["outbound"][k].price >= 0

C16_Witness ==
  /\ vphase = "returned"
  /\ phase = "done"
  /\ Len(response.flights) = 2
  /\ response.flights[1].price < 0
  /\ response.flights[2].price > 0

(* --------------------- enrichOutputWithDeepLinks ----------------------- *)

\* flights in the outbound list and in the return list of an output
MaxLegFlights == 1

\* The fields of a flight enrichment reads: id and deepLink (both z.string()).
LinkedFlight(id, deepLink) == [id |-> id, deepLink |-> deepLink]

\* F1 and F2; a second flight with the id F1; a flight with the empty id; a
\* third flight with the id F1, whose link is the empty string
LinkedFlights ==
  {LinkedFlight("F1", "https://book/F1"), LinkedFlight("F2", "https://book/F2"),
   LinkedFlight("F1", "https://book/other"), LinkedFlight("", "https://book/none"),
   LinkedFlight("F1", "")}

\* A FlightRecommendation: outboundFlightId, totalPrice, strategy, confidence
\* (in hundredths) and reasoning are required, the keys in absent
\* (returnFlightId, outboundDeepLink, returnDeepLink, deepLink) are not set.
Recommendation(outId, retId, outLink, retLink, link, absent) ==
  [outboundFlightId |-> outId, returnFlightId |-> retId, outboundDeepLink |-> outLink,
   returnDeepLink |-> retLink, deepLink |-> link, absent |-> absent,
   totalPrice |-> 215, strategy |-> "best_value", confidence |-> 85,
   reasoning |-> "lowest total for the dates"]

\* a key of a recommendation with a value of v, or not set when v is "-"
Unset(key, v) == IF v = "-" THEN {key} ELSE {}
Given(v) == IF v = "-" THEN "" ELSE v

Recommendations ==
  {Recommendation(o, Given(r), Given(old[1]), Given(old[2]), Given(l),
                  Unset("returnFlightId", r) \cup Unset("outboundDeepLink", old[1])
                    \cup Unset("returnDeepLink", old[2]) \cup Unset("deepLink", l)) :
     o \in {"F1", "F9", ""}, r \in {"-", "", "F1", "F2", "F9"},
     old \in {<<"-", "-">>, <<"https://old/out", "https://old/ret">>},
     l \in {"-", "", "https://custom"}}

\* entries of the alternatives list of an output
MaxAlternatives == 2

\* two alternative recommendations: a round trip with an empty primary link,
\* and a one-way recommendation without links
Alternative ==
  [Recommendation("F2", "F1", "", "", "", {"outboundDeepLink", "returnDeepLink"})
     EXCEPT !.totalPrice = 240, !.strategy = "fastest", !.confidence = 70,
            !.reasoning = "shortest total duration"]

OneWayAlternative ==
  [Recommendation("F1", "", "", "", "",
                  {"returnFlightId", "outboundDeepLink", "returnDeepLink", "deepLink"})
     EXCEPT !.totalPrice = 120, !.strategy = "cheapest", !.confidence = 60,
            !.reasoning = "cheapest outbound"]

\* the lists of alternatives: each alternative at most once
AlternativeLists ==
  {as \in SeqsUpTo({Alternative, OneWayAlternative}, MaxAlternatives) :
     \A j, k \in DOMAIN as : j # k => as[j] # as[k]}

\* FlightAnalysis and the metadata of an output, which enrichment does not read
Analysis == [marketSummary |-> "prices are stable", keyInsights |-> <<"book early">>]

Metadata(total) == [searchedAt |-> "2025-01-10T09:00:00Z", totalResults |-> total]

\* A FlightSearchOutput: the keys in absent (return, alternatives) are not set
Output(ob, rt, rec, alts, ab) ==
  [tripType |-> IF "return" \in ab THEN "one-way" ELSE "round-trip",
   outbound |-> ob, return |-> IF "return" \in ab THEN <<>> ELSE rt,
   analysis |-> Analysis,
   recommendation |-> rec,
   alternatives |-> IF "alternatives" \in ab THEN <<>> ELSE alts,
   metadata |-> Metadata(Len(ob) + (IF "return" \in ab THEN 0 ELSE Len(rt))),
   absent |-> ab]

\* the lists of flights of one leg
LegFlights == SeqsUpTo(LinkedFlights, MaxLegFlights)

\* the return list before the outbound list (a faulty variant)
AllFlightsReturnFirst(o) == (IF "return" \in o.absent THEN <<>> ELSE o.return) \o o.outbound

\* [...output.outbound, ...(output.return || [])]
AllFlights(o) == o.outbound \o (IF "return" \in o.absent THEN <<>> ELSE o.return)

\* allFlights.find((f) => f.id === id): the position of the first flight
\* with the id, 0 when find gives undefined
Find(allFlights, id) ==
  IF \E k \in DOMAIN allFlights : allFlights[k].id = id
  THEN CHOOSE k \in DOMAIN allFlights :
         /\ allFlights[k].id = id
         /\ \A j \in 1..(k - 1) : allFlights[j].id # id
  ELSE 0

\* rec.returnFlightId ? allFlights.find(...) : undefined (144-146)
FindReturn(allFlights, rec) ==
  IF "returnFlightId" \in rec.absent \/ rec.returnFlightId = "" THEN 0
  ELSE Find(allFlights, rec.returnFlightId)

\* an enrichment that never takes the link of the recommendation as given (a
\* faulty variant)
NeverKeepsLink(rec) == FALSE

\* rec.deepLink && rec.deepLink.length > 0 (149)
KeepsLink(rec) == "deepLink" \notin rec.absent /\ rec.deepLink # ""

\* the return flight's link as the primary link (a faulty variant)
RoundTripLinksReturnFirst(rec, outboundFlight, returnFlight) ==
  [rec EXCEPT !.outboundDeepLink = outboundFlight.deepLink,
              !.returnDeepLink = returnFlight.deepLink,
              !.deepLink = returnFlight.deepLink,
              !.absent = @ \ {"outboundDeepLink", "returnDeepLink", "deepLink"}]

\* { ...rec, outboundDeepLink, returnDeepLink, deepLink: outboundLink } (163-169)
RoundTripLinks(rec, outboundFlight, returnFlight) ==
  [rec EXCEPT !.outboundDeepLink = outboundFlight.deepLink,
              !.returnDeepLink = returnFlight.deepLink,
              !.deepLink = outboundFlight.deepLink,
              !.absent = @ \ {"outboundDeepLink", "returnDeepLink", "deepLink"}]

\* the outbound link without the primary link (a faulty variant)
OutboundLinkOnly(rec, outboundFlight) ==
  [rec EXCEPT !.outboundDeepLink = outboundFlight.deepLink,
              !.absent = @ \ {"outboundDeepLink"}]

\* the primary link taken from the outbound link the recommendation had (a
\* faulty variant)
OutboundLinksStale(rec, outboundFlight) ==
  [rec EXCEPT !.outboundDeepLink = outboundFlight.deepLink,
              !.deepLink = rec.outboundDeepLink,
              !.absent = @ \ {"outboundDeepLink", "deepLink"}]

\* { ...rec, outboundDeepLink: outboundLink, deepLink: outboundLink } (174-178)
OutboundLinks(rec, outboundFlight) ==
  [rec EXCEPT !.outboundDeepLink = outboundFlight.deepLink,
              !.deepLink = outboundFlight.deepLink,
              !.absent = @ \ {"outboundDeepLink", "deepLink"}]

\* an unresolved recommendation with its links emptied (a faulty variant)
ClearedLinks(rec) ==
  [rec EXCEPT !.outboundDeepLink = "", !.returnDeepLink = "", !.deepLink = ""]

\* return rec (181)
Unresolved(rec) == rec

\* an enrichRec that sets the return link when only the return flight is found
\* (a faulty variant)
EnrichRecReturnAlone(allFlights, rec) ==
  LET outboundFlight == Find(allFlights, rec.outboundFlightId)
      returnFlight == FindReturn(allFlights, rec)
  IN  IF KeepsLink(rec) THEN rec
      ELSE IF outboundFlight # 0 /\ returnFlight # 0
      THEN RoundTripLinks(rec, allFlights[outboundFlight], allFlights[returnFlight])
      ELSE IF outboundFlight # 0
      THEN OutboundLinks(rec, allFlights[outboundFlight])
      ELSE IF returnFlight # 0
      THEN [rec EXCEPT !.returnDeepLink = allFlights[returnFlight].deepLink,
                       !.absent = @ \ {"returnDeepLink"}]
      ELSE Unresolved(rec)

\* enrichRec (142-182)
EnrichRec(allFlights, rec) ==
  LET outboundFlight == Find(allFlights, rec.outboundFlightId)
      returnFlight == FindReturn(allFlights, rec)
  IN  IF KeepsLink(rec) THEN rec
      ELSE IF outboundFlight # 0 /\ returnFlight # 0
      THEN RoundTripLinks(rec, allFlights[outboundFlight], allFlights[returnFlight])
      ELSE IF outboundFlight # 0
      THEN OutboundLinks(rec, allFlights[outboundFlight])
      ELSE Unresolved(rec)

\* an enrichment that builds a new output from the flight lists and the
\* recommendations alone (a faulty variant)
EnrichOutputWithoutSpread(o) ==
  [o EXCEPT !.recommendation = EnrichRec(AllFlights(o), o.recommendation),
            !.alternatives = [k \in DOMAIN o.alternatives |->
                                EnrichRec(AllFlights(o), o.alternatives[k])],
            !.analysis = [marketSummary |-> "", keyInsights |-> <<>>],
            !.metadata = Metadata(0)]

\* an enrichment of the primary recommendation alone (a faulty variant)
EnrichPrimaryOnly(o) ==
  [o EXCEPT !.recommendation = EnrichRec(AllFlights(o), o.recommendation)]

\* { ...output, recommendation: enrichRec(...), alternatives: ...?.map(enrichRec) };
\* alternatives?.map of a list that is not set gives undefined: the key stays
\* in absent
EnrichOutput(o) ==
  [o EXCEPT !.recommendation = EnrichRec(AllFlights(o), o.recommendation),
            !.alternatives = [k \in DOMAIN o.alternatives |->
                                EnrichRec(AllFlights(o), o.alternatives[k])]]

\* enrichOutputWithDeepLinks(output) (138-189)
Enrich ==
  /\ output.tripType # "none"
  /\ enriched.tripType = "none"
  /\ enriched' = EnrichOutput(output)
  /\ UNCHANGED <<output, valVars, smartVars, extractVars, catalogue, impl, input, phase, pairs, status, calls,
                 resp, allResults, dirState, merged, out, response, error>>

InitEnrich ==
  /\ impl = "sdk"
  /\ catalogue = {F1, F2, F3}
  /\ input = [flyFrom |-> <<"MXP">>, flyTo |-> <<"BCN">>, roundTrip |-> FALSE]
  /\ Idle
  /\ ValIdle
  /\ SmartIdle
  /\ ExtractIdle
  /\ \E ob \in LegFlights, rec \in Recommendations, ab \in SUBSET {"return", "alternatives"} :
       \E rt \in (IF "return" \in ab THEN {<<>>} ELSE LegFlights),
          alts \in (IF "alternatives" \in ab THEN {<<>>} ELSE AlternativeLists) :
         output = Output(ob, rt, rec, alts, ab)
  /\ enriched = NoOutput

NextEnrich == Enrich

SpecEnrich == InitEnrich /\ [][NextEnrich]_vars

\* the combined outbound+return list of the output
Combined == output.outbound \o (IF "return" \in output.absent THEN <<>> ELSE output.return)

\* some flight of the combined list has the id
Resolves(id) == \E k \in DOMAIN Combined : Combined[k].id = id

\* the link of the flight the id resolves to: the first one with the id
LinkOf(id) ==
  LET first == CHOOSE k \in DOMAIN Combined :
                 /\ Combined[k].id = id
                 /\ \A j \in 1..(k - 1) : Combined[j].id # id
  IN  Combined[first].deepLink

\* each recommendation of the output with what enrichment returned for it
EnrichedPairs ==
  {<<output.recommendation, enriched.recommendation>>}
    \cup {<<output.alternatives[k], enriched.alternatives[k]>> : k \in DOMAIN output.alternatives}

HasLink(rec) == "deepLink" \notin rec.absent /\ rec.deepLink # ""

\* C17: a recommendation whose primary link is not empty is returned
\* unchanged in every field, even when its outbound id resolves to a flight
\* with another link.
C17_ExplicitLinkKept ==
  enriched.tripType # "none" =>
    \A pr \in EnrichedPairs : HasLink(pr[1]) => pr[2] = pr[1]

C17_Witness ==
  /\ enriched.tripType # "none"
  /\ output.recommendation.deepLink = "https://custom"
  /\ output.recommendation.outboundFlightId = "F1"
  /\ Resolves("F1")
  /\ LinkOf("F1") = "https://book/F1"
  /\ enriched.recommendation = output.recommendation

\* the three links of a recommendation are those of its two flights
RoundTripLinked(before, after) ==
  /\ {"outboundDeepLink", "returnDeepLink", "deepLink"} \cap after.absent = {}
  /\ after.returnDeepLink = LinkOf(before.returnFlightId)
  /\ after.outboundDeepLink = LinkOf(before.outboundFlightId)
  /\ after.deepLink = LinkOf(before.outboundFlightId)
  /\ after.outboundFlightId = before.outboundFlightId
  /\ after.returnFlightId = before.returnFlightId

\* C18 as stated: with no primary link and both ids resolving in the combined
\* list, the return link is the return flight's, the outbound link and the
\* primary link are the outbound flight's.
C18_BothResolved_AsStated ==
  enriched.tripType # "none" =>
    \A pr \in EnrichedPairs :
      ( /\ ~HasLink(pr[1])
        /\ Resolves(pr[1].outboundFlightId)
        /\ "returnFlightId" \notin pr[1].absent
        /\ Resolves(pr[1].returnFlightId) )
      => RoundTripLinked(pr[1], pr[2])

\* C18: with no primary link, an outbound id that resolves and a non-empty
\* return id that resolves in the combined list, the return link is the
\* return flight's, the outbound link and the primary link are the outbound
\* flight's.
C18_BothResolved ==
  enriched.tripType # "none" =>
    \A pr \in EnrichedPairs :
      ( /\ ~HasLink(pr[1])
        /\ Resolves(pr[1].outboundFlightId)
        /\ "returnFlightId" \notin pr[1].absent
        /\ pr[1].returnFlightId # ""
        /\ Resolves(pr[1].returnFlightId) )
      => RoundTripLinked(pr[1], pr[2])

C18_Witness ==
  /\ enriched.tripType # "none"
  /\ ~HasLink(output.recommendation)
  /\ output.recommendation.outboundFlightId = "F1"
  /\ output.recommendation.returnFlightId = "F2"
  /\ "returnFlightId" \notin output.recommendation.absent
  /\ Resolves("F1")
  /\ Resolves("F2")
  /\ enriched.recommendation.deepLink = "https://book/F1"
  /\ enriched.recommendation.outboundDeepLink = "https://book/F1"
  /\ enriched.recommendation.returnDeepLink = "https://book/F2"

\* the return flight of a recommendation is absent or unresolved
NoReturnFlight(rec) ==
  \/ "returnFlightId" \in rec.absent
  \/ rec.returnFlightId = ""
  \/ ~Resolves(rec.returnFlightId)

\* C19: with no primary link, an outbound id that resolves and a return
\* flight absent or unresolved, the outbound link and the primary link are
\* the outbound flight's and the return link stays as it was; F1 with link
\* https://book/F1 gives https://book/F1 for both.
C19_OutboundOnly ==
  enriched.tripType # "none" =>
    \A pr \in EnrichedPairs :
      (~HasLink(pr[1]) /\ Resolves(pr[1].outboundFlightId) /\ NoReturnFlight(pr[1])) =>
        /\ {"outboundDeepLink", "deepLink"} \cap pr[2].absent = {}
        /\ pr[2].outboundDeepLink = LinkOf(pr[1].outboundFlightId)
        /\ pr[2].deepLink = LinkOf(pr[1].outboundFlightId)
        /\ pr[2].returnDeepLink = pr[1].returnDeepLink
        /\ ("returnDeepLink" \in pr[2].absent) = ("returnDeepLink" \in pr[1].absent)
        /\ pr[2].outboundFlightId = pr[1].outboundFlightId
        /\ pr[2].returnFlightId = pr[1].returnFlightId
        /\ ( /\ pr[1].outboundFlightId = "F1"
             /\ Combined = <<LinkedFlight("F1", "https://book/F1")>> )
           => pr[2].deepLink = "https://book/F1" /\ pr[2].outboundDeepLink = "https://book/F1"

C19_Witness ==
  /\ enriched.tripType # "none"
  /\ output.outbound = <<LinkedFlight("F1", "https://book/F1")>>
  /\ "return" \in output.absent
  /\ output.recommendation.outboundFlightId = "F1"
  /\ "returnFlightId" \in output.recommendation.absent
  /\ "deepLink" \in output.recommendation.absent
  /\ enriched.recommendation.deepLink = "https://book/F1"
  /\ enriched.recommendation.outboundDeepLink = "https://book/F1"

\* C20: when neither id of a recommendation resolves in the combined list,
\* enrichment returns it unchanged and the output is returned, with empty
\* flight lists and with the return list absent too.
C20_UnresolvedUnchanged ==
  enriched.tripType # "none" =>
    /\ enriched.tripType = output.tripType
    /\ enriched.outbound = output.outbound
    /\ enriched.return = output.return
    /\ \A pr \in EnrichedPairs :
         ( /\ ~Resolves(pr[1].outboundFlightId)
           /\ ("returnFlightId" \in pr[1].absent \/ ~Resolves(pr[1].returnFlightId)) )
         => pr[2] = pr[1]

C20_Witness ==
  /\ enriched.tripType # "none"
  /\ output.outbound = <<>>
  /\ "return" \in output.absent
  /\ output.alternatives # <<>>
  /\ output.recommendation.outboundFlightId = "F9"
  /\ output.recommendation.returnFlightId = "F2"
  /\ "deepLink" \in output.recommendation.absent
  /\ "outboundDeepLink" \notin output.recommendation.absent
  /\ enriched.recommendation = output.recommendation
  /\ enriched.alternatives = output.alternatives

\* the fields of a recommendation that are not links
SameAdvice(before, after) ==
  /\ after.outboundFlightId = before.outboundFlightId
  /\ after.returnFlightId = before.returnFlightId
  /\ ("returnFlightId" \in after.absent) = ("returnFlightId" \in before.absent)
  /\ after.totalPrice = before.totalPrice
  /\ after.strategy = before.strategy
  /\ after.confidence = before.confidence
  /\ after.reasoning = before.reasoning

\* C21: enrichment changes nothing but the three link fields of the
\* recommendations: the two flight ids, total price, strategy, confidence and
\* reasoning of every recommendation, and the outbound list, return list,
\* analysis, trip type and metadata of the output are as they were.
C21_OnlyLinksChange ==
  enriched.tripType # "none" =>
    /\ \A pr \in EnrichedPairs : SameAdvice(pr[1], pr[2])
    /\ enriched.outbound = output.outbound
    /\ enriched.return = output.return
    /\ ("return" \in enriched.absent) = ("return" \in output.absent)
    /\ enriched.analysis = output.analysis
    /\ enriched.tripType = output.tripType
    /\ enriched.metadata = output.metadata

C21_Witness ==
  /\ enriched.tripType = "round-trip"
  /\ output.outbound # <<>>
  /\ output.return # <<>>
  /\ enriched.recommendation # output.recommendation
  /\ \E k \in DOMAIN output.alternatives : enriched.alternatives[k] # output.alternatives[k]
  /\ enriched.metadata.totalResults = 2
  /\ enriched.recommendation.reasoning = "lowest total for the dates"

\* what enrichment gives for one recommendation, from the recommendation and
\* the combined list alone
Expected(rec) ==
  IF HasLink(rec) THEN rec
  ELSE IF Resolves(rec.outboundFlightId) /\ ~NoReturnFlight(rec)
  THEN [rec EXCEPT !.outboundDeepLink = LinkOf(rec.outboundFlightId),
                   !.returnDeepLink = LinkOf(rec.returnFlightId),
                   !.deepLink = LinkOf(rec.outboundFlightId),
                   !.absent = @ \ {"outboundDeepLink", "returnDeepLink", "deepLink"}]
  ELSE IF Resolves(rec.outboundFlightId)
  THEN [rec EXCEPT !.outboundDeepLink = LinkOf(rec.outboundFlightId),
                   !.deepLink = LinkOf(rec.outboundFlightId),
                   !.absent = @ \ {"outboundDeepLink", "deepLink"}]
  ELSE rec

\* C22: the primary recommendation and every entry of the alternatives are
\* enriched, each from its own fields and the flight lists alone; the
\* alternatives keep their number and order, and a list of alternatives that
\* is not set stays not set.
C22_EachEntryEnriched ==
  enriched.tripType # "none" =>
    /\ enriched.recommendation = Expected(output.recommendation)
    /\ ("alternatives" \in enriched.absent) = ("alternatives" \in output.absent)
    /\ Len(enriched.alternatives) = Len(output.alternatives)
    /\ \A k \in DOMAIN output.alternatives :
         enriched.alternatives[k] = Expected(output.alternatives[k])

C22_Witness ==
  /\ enriched.tripType # "none"
  /\ output.alternatives = <<OneWayAlternative, Alternative>>
  /\ Resolves("F1")
  /\ Resolves("F2")
  /\ HasLink(output.recommendation)
  /\ enriched.recommendation = output.recommendation
  /\ enriched.alternatives[1].outboundFlightId = "F1"
  /\ enriched.alternatives[1].deepLink = LinkOf("F1")
  /\ "returnDeepLink" \in enriched.alternatives[1].absent
  /\ enriched.alternatives[2].outboundFlightId = "F2"
  /\ enriched.alternatives[2].deepLink = LinkOf("F2")
  /\ enriched.alternatives[2].returnDeepLink = LinkOf("F1")

(* --------------------------- smartFlightSearch -------------------------- *)

\* calls of smartFlightSearch in one run
MaxInvocations == 2

\* milliseconds the clock advances in one run
MaxElapsed == 2

\* resolve(process.cwd(), '../../submodules/one-flight/src') (126)
DefaultBasePath == "<cwd>/../../submodules/one-flight/src"

\* the options of initializeSmartSearch: basePath given or not
InitOptions ==
  {[basePath |-> "/srv/one-flight/src", absent |-> {}],
   [basePath |-> "", absent |-> {"basePath"}]}

\* an execution id: the framework's, or `error-${Date.now()}` (304) with the
\* clock counted from the start of the run
ExecutionId(prefix, n) == [prefix |-> prefix, n |-> n]

\* result.meta of execute(): duration in ms, cost in millionths of a dollar
Meta(executionId, duration, tokensUsed, costUSD) ==
  [executionId |-> executionId, duration |-> duration, tokensUsed |-> tokensUsed,
   costUSD |-> costUSD]

Metas ==
  {Meta(ExecutionId("exec", 1), 1200, 350, 2100), Meta(ExecutionId("exec", 2), 40, 0, 0)}

\* result.error of execute(): message, code and the recoverable flag
ReportedError(message, code, recoverable) ==
  [message |-> message, code |-> code, recoverable |-> recoverable]

NoReportedError == ReportedError("", "", FALSE)

ReportedErrors ==
  {ReportedError("Rate limit reached", "RATE_LIMIT", TRUE),
   ReportedError("Output failed validation", "VALIDATION_ERROR", FALSE)}

\* the outputs the agent produces: a round trip whose recommendations lack
\* links, and a one-way trip whose recommendation has its own link
SmartOutputs ==
  {Output(<<LinkedFlight("F1", "https://book/F1")>>, <<LinkedFlight("F2", "https://book/F2")>>,
          Recommendation("F1", "F2", "", "", "",
                         {"outboundDeepLink", "returnDeepLink", "deepLink"}),
          <<Alternative>>, {}),
   Output(<<LinkedFlight("F1", "https://book/F1")>>, <<>>,
          Recommendation("F1", "", "", "", "https://custom",
                         {"returnFlightId", "outboundDeepLink", "returnDeepLink"}),
          <<>>, {"return", "alternatives"})}

\* an output without its outbound list, which the declared type rules out
MalformedOutput ==
  Output(<<>>, <<>>,
         Recommendation("F1", "", "", "", "",
                        {"returnFlightId", "outboundDeepLink", "returnDeepLink", "deepLink"}),
         <<>>, {"outbound", "return", "alternatives"})

\* What execute() resolves with: success, output, error, meta and, in durable
\* mode, workflowRunId and workflowStatus; the keys in absent are not set.
ExecuteResult(success, o, err, meta, durable, ab) ==
  [kind |-> "result", success |-> success, output |-> o, error |-> err, meta |-> meta,
   workflowRunId |-> IF durable THEN "wf-7" ELSE "",
   workflowStatus |-> IF ~durable THEN "" ELSE IF success THEN "completed" ELSE "failed",
   absent |-> ab \cup (IF durable THEN {} ELSE {"workflowRunId", "workflowStatus"})]

\* success with an output; success with the malformed output; success without
\* output; a reported failure; a reported failure next to the output gathered
\* so far; a failure without error
ExecuteResults ==
  {ExecuteResult(TRUE, o, NoReportedError, m, d, {"error"}) :
     o \in SmartOutputs, m \in Metas, d \in BOOLEAN}
  \cup {ExecuteResult(TRUE, MalformedOutput, NoReportedError, m, FALSE, {"error"}) :
          m \in Metas}
  \cup {ExecuteResult(TRUE, NoOutput, NoReportedError, m, FALSE, {"output", "error"}) :
          m \in Metas}
  \cup {ExecuteResult(FALSE, NoOutput, e, m, d, {"output"}) :
          e \in ReportedErrors, m \in Metas, d \in BOOLEAN}
  \cup {ExecuteResult(FALSE, o, e, m, FALSE, {}) :
          o \in SmartOutputs, e \in ReportedErrors, m \in Metas}
  \cup {ExecuteResult(FALSE, NoOutput, NoReportedError, m, FALSE, {"output", "error"}) :
          m \in Metas}

\* [...output.outbound] of an output without outbound (139)
NotIterable ==
  [kind |-> "Error", message |-> "output.outbound is not iterable",
   text |-> "TypeError: output.outbound is not iterable"]

\* enrichOutputWithDeepLinks throws on the result (255)
EnrichThrows(r) ==
  r.success /\ "output" \notin r.absent /\ "outbound" \in r.output.absent

\* what execute() throws: an Error with a message, or another value, with
\* the text String(error) gives
Exceptions ==
  {[kind |-> "Error", message |-> "network down", text |-> "Error: network down"],
   [kind |-> "value", message |-> "", text |-> "quota exceeded"]}

\* the meta of an envelope, from result.meta (260-265, 278-283)
EnvelopeMeta(meta) ==
  [executionId |-> meta.executionId, durationMs |-> meta.duration,
   tokensUsed |-> meta.tokensUsed, costUSD |-> meta.costUSD]

\* A SmartSearchResult: success, data, error { message, code }, meta,
\* workflowRunId, workflowStatus; the keys in absent are not set.
Envelope(success, data, err, meta, runId, wfStatus, ab) ==
  [kind |-> "envelope", success |-> success, data |-> data, error |-> err, meta |-> meta,
   workflowRunId |-> runId, workflowStatus |-> wfStatus, absent |-> ab]

EnvelopeError(message, code) == [message |-> message, code |-> code]

\* the success branch (251-269)
SuccessEnvelope(r) ==
  Envelope(TRUE, EnrichOutput(r.output), EnvelopeError("", ""), EnvelopeMeta(r.meta),
           r.workflowRunId, r.workflowStatus,
           {"error"} \cup (r.absent \cap {"workflowRunId", "workflowStatus"}))

\* a failure envelope that hands on the output the call gathered (a faulty
\* variant)
FailureEnvelopeWithData(r) ==
  Envelope(FALSE, r.output,
           IF "error" \in r.absent
           THEN EnvelopeError("Unknown error occurred", "UNKNOWN_ERROR")
           ELSE EnvelopeError(r.error.message, r.error.code),
           EnvelopeMeta(r.meta), r.workflowRunId, r.workflowStatus,
           r.absent \cap {"output", "workflowRunId", "workflowStatus"})

\* a failure envelope that copies result.error without defaults (a faulty
\* variant)
FailureEnvelopeNoDefaults(r) ==
  Envelope(FALSE, NoOutput, EnvelopeError(r.error.message, r.error.code),
           EnvelopeMeta(r.meta), r.workflowRunId, r.workflowStatus,
           {"data"} \cup (r.absent \cap {"workflowRunId", "workflowStatus"}))

\* the failure branch (271-287): message and code of result.error, or the
\* defaults
FailureEnvelope(r) ==
  Envelope(FALSE, NoOutput,
           IF "error" \in r.absent
           THEN EnvelopeError("Unknown error occurred", "UNKNOWN_ERROR")
           ELSE EnvelopeError(r.error.message, r.error.code),
           EnvelopeMeta(r.meta), r.workflowRunId, r.workflowStatus,
           {"data"} \cup (r.absent \cap {"workflowRunId", "workflowStatus"}))

\* result.success && result.output (251)
EnvelopeOf(r) ==
  IF r.success /\ "output" \notin r.absent THEN SuccessEnvelope(r) ELSE FailureEnvelope(r)

\* error instanceof Error ? error.message : String(error) (300)
ErrorMessage(e) == IF e.kind = "Error" THEN e.message ELSE e.text

\* the envelope of the catch block (297-309); both readings of Date.now()
\* fall in the same millisecond
ExceptionEnvelope(e) ==
  Envelope(FALSE, NoOutput, EnvelopeError(ErrorMessage(e), "EXECUTION_ERROR"),
           [executionId |-> ExecutionId("error", clock), durationMs |-> clock - startTime,
            tokensUsed |-> 0, costUSD |-> 0],
           "", "", {"data", "workflowRunId", "workflowStatus"})

\* a call that starts execute() again after a failure (a faulty variant)
RetryOnFailure(env) ==
  [sphase |-> IF env.success THEN "success" ELSE "executing",
   executes |-> IF env.success THEN executes ELSE executes + 1,
   envelope |-> IF env.success THEN env ELSE NoEnvelope]

\* return { ... } (257, 272): the call is over
ReturnEnvelope(env) ==
  [sphase |-> IF env.success THEN "success" ELSE "failure",
   executes |-> executes,
   envelope |-> env]

\* a call without the catch block (a faulty variant)
Rethrown(e) == [sphase |-> "threw", envelope |-> NoEnvelope]

\* catch (error) { ... return { ... } } (288-310)
Caught(e) == [sphase |-> "failure", envelope |-> ExceptionEnvelope(e)]

\* calls of initializeFlightSchemas() in a run
MaxRegistrations == 2

\* how a call of initializeSmartSearch ends: it returns, or the registration
\* of the schemas (120) or the resolving of the default path (125) throws
InitOutcomes == {"returns", "throws"}

\* the options of the call at 208: none
NoOptions == [basePath |-> "", absent |-> {"basePath"}]

\* an initializeSmartSearch without the test of the flag (a faulty variant)
Reinitialize(options, o) ==
  /\ schemaCalls < MaxRegistrations
  /\ schemaCalls' = schemaCalls + 1
  /\ IF o = "throws"
     THEN /\ initOutcome' = "threw"
          /\ UNCHANGED <<isInitialized, basePath>>
     ELSE /\ basePath' = IF "basePath" \in options.absent THEN DefaultBasePath
                         ELSE options.basePath
          /\ isInitialized' = TRUE
          /\ initOutcome' = "returned"

\* initializeSmartSearch(options) (116-129): nothing is done when the flag is
\* set; the flag is set last (126), after everything that can throw
InitializeSmartSearch(options, o) ==
  IF isInitialized
  THEN /\ o = "returns"
       /\ initOutcome' = "returned"
       /\ UNCHANGED <<isInitialized, basePath, schemaCalls>>
  ELSE /\ schemaCalls < MaxRegistrations
       /\ schemaCalls' = schemaCalls + 1
       /\ IF o = "throws"
          THEN /\ initOutcome' = "threw"
               /\ UNCHANGED <<isInitialized, basePath>>
          ELSE /\ basePath' = IF "basePath" \in options.absent THEN DefaultBasePath
                              ELSE options.basePath
               /\ isInitialized' = TRUE
               /\ initOutcome' = "returned"

\* what the smart-search actions leave alone
SearchState ==
  <<catalogue, impl, input, phase, pairs, status, calls, resp, allResults, dirState,
    merged, out, response, error, valVars, enrichVars, extractVars>>

\* a caller initializes the module
Initialize ==
  /\ \E options \in InitOptions : \E o \in InitOutcomes : InitializeSmartSearch(options, o)
  /\ UNCHANGED <<SearchState, config, invocation, sphase, startTime, clock, executes,
                 result, exception, envelope>>

\* const startTime = Date.now() (211) and the call of execute() (224)
CallExecute ==
  /\ startTime' = clock
  /\ sphase' = "executing"
  /\ executes' = 1

\* smartFlightSearch(input, userId) up to its await (203-227): a module that
\* is not initialized is initialized without options (207-209), outside the
\* try, so that an initialization that throws ends the call; then execute()
\* is called
SmartFlightSearch ==
  /\ sphase \in {"idle", "success", "failure", "threw"}
  /\ invocation < MaxInvocations
  /\ \/ /\ isInitialized
        /\ UNCHANGED <<isInitialized, basePath, schemaCalls, initOutcome>>
        /\ CallExecute
     \/ /\ ~isInitialized
        /\ \E o \in InitOutcomes :
             /\ InitializeSmartSearch(NoOptions, o)
             /\ IF o = "throws"
                THEN /\ sphase' = "threw"
                     /\ executes' = 0
                     /\ UNCHANGED startTime
                ELSE CallExecute
  /\ invocation' = invocation + 1
  /\ result' = NoResult
  /\ exception' = NoException
  /\ envelope' = NoEnvelope
  /\ UNCHANGED <<SearchState, config, clock>>

\* execute() resolves and smartFlightSearch returns (229-287), from the catch
\* block when the enrichment of the output throws
ExecuteResolves(r) ==
  /\ sphase = "executing"
  /\ result' = r
  /\ IF EnrichThrows(r)
     THEN LET next == Caught(NotIterable)
          IN  /\ exception' = NotIterable
              /\ sphase' = next.sphase
              /\ envelope' = next.envelope
              /\ UNCHANGED executes
     ELSE LET next == ReturnEnvelope(EnvelopeOf(r))
          IN  /\ sphase' = next.sphase
              /\ executes' = next.executes
              /\ envelope' = next.envelope
              /\ UNCHANGED exception
  /\ UNCHANGED <<SearchState, config, isInitialized, basePath, schemaCalls, initOutcome,
                 invocation, startTime, clock>>

\* execute() throws and smartFlightSearch returns from its catch block
\* (288-310)
ExecuteThrows(e) ==
  /\ sphase = "executing"
  /\ exception' = e
  /\ LET next == Caught(e)
     IN  /\ sphase' = next.sphase
         /\ envelope' = next.envelope
  /\ UNCHANGED <<SearchState, config, isInitialized, basePath, schemaCalls, initOutcome,
                 invocation, startTime, clock, executes, result>>

\* a millisecond goes by, before a call or while execute() is in flight
Elapse ==
  /\ sphase \in {"idle", "executing"}
  /\ clock < MaxElapsed
  /\ clock' = clock + 1
  /\ UNCHANGED <<SearchState, config, isInitialized, basePath, schemaCalls, initOutcome,
                 invocation, sphase, startTime, executes, result, exception, envelope>>

\* FlightSearchService.configure(config) (284-286)
Configure ==
  /\ config' = "set"
  /\ UNCHANGED <<SearchState, isInitialized, basePath, schemaCalls, initOutcome, invocation,
                 sphase, startTime, clock, executes, result, exception, envelope>>

\* FlightSearchService.search(input) without a configuration: getConfig()
\* throws (288-295) inside the async function, before any pair is searched,
\* and the promise search() returns is rejected (301-302)
SearchNotConfigured ==
  /\ config = "null"
  /\ phase = "idle"
  /\ phase' = "error"
  /\ error' = "Service not configured"
  /\ UNCHANGED <<catalogue, impl, input, pairs, status, calls, resp, allResults, dirState,
                 merged, out, response, valVars, enrichVars, extractVars, smartVars>>

InitSmart ==
  /\ impl = "sdk"
  /\ catalogue = {F1, F2, F3}
  /\ input = [flyFrom |-> <<"MXP">>, flyTo |-> <<"BCN">>, roundTrip |-> FALSE]
  /\ Idle
  /\ ValIdle
  /\ EnrichIdle
  /\ ExtractIdle
  /\ config = "null"
  /\ isInitialized = FALSE
  /\ basePath = ""
  /\ schemaCalls = 0
  /\ initOutcome = "none"
  /\ invocation = 0
  /\ sphase = "idle"
  /\ startTime = 0
  /\ clock = 0
  /\ executes = 0
  /\ result = NoResult
  /\ exception = NoException
  /\ envelope = NoEnvelope

NextSmart ==
  \/ Initialize
  \/ SmartFlightSearch
  \/ \E r \in ExecuteResults : ExecuteResolves(r)
  \/ \E e \in Exceptions : ExecuteThrows(e)
  \/ Elapse
  \/ Configure
  \/ SearchNotConfigured

SpecSmart == InitSmart /\ [][NextSmart]_vars

\* execute() reported a structured failure
StructuredFailure ==
  /\ result.kind = "result"
  /\ ~result.success
  /\ "error" \notin result.absent

\* C23: on a structured failure reported by execute() the failure envelope
\* keeps the reported message, code and recoverable flag and the reported
\* usage metadata; the error of every failure envelope carries message, code
\* and a recoverable hint.
C23_FailureKeepsReport ==
  (envelope.kind = "envelope" /\ ~envelope.success) =>
    /\ {"message", "code", "recoverable"} \subseteq DOMAIN envelope.error
    /\ StructuredFailure =>
         /\ envelope.error.message = result.error.message
         /\ envelope.error.code = result.error.code
         /\ envelope.error.recoverable = result.error.recoverable
         /\ envelope.meta = EnvelopeMeta(result.meta)

C23_Witness ==
  /\ StructuredFailure
  /\ result.error = ReportedError("Rate limit reached", "RATE_LIMIT", TRUE)
  /\ envelope.kind = "envelope"
  /\ ~envelope.success
  /\ envelope.error.message = "Rate limit reached"
  /\ envelope.error.code = "RATE_LIMIT"
  /\ envelope.meta.tokensUsed = 350

C25_SingleExecution ==
  [][ /\ (sphase' # sphase \/ invocation' # invocation) =>
           \/ /\ sphase \in {"idle", "success", "failure", "threw"}
              /\ isInitialized'
              /\ sphase' = "executing"
              /\ invocation' = invocation + 1
              /\ executes' = 1
           \/ /\ sphase \in {"idle", "success", "failure", "threw"}
              /\ ~isInitialized'
              /\ initOutcome' = "threw"
              /\ sphase' = "threw"
              /\ invocation' = invocation + 1
              /\ executes' = 0
           \/ /\ sphase = "executing"
              /\ sphase' \in {"success", "failure"}
              /\ invocation' = invocation
              /\ executes' = executes
      /\ executes' <= 1
      /\ (sphase \in {"success", "failure"} /\ invocation' = invocation) =>
           /\ sphase' = sphase
           /\ envelope' = envelope
           /\ executes' = executes ]_vars

C25_Witness ==
  /\ invocation = 2
  /\ sphase = "failure"
  /\ executes = 1
  /\ StructuredFailure
  /\ envelope.kind = "envelope"

\* C26: an envelope with success has data and no error, an envelope without
\* success has an error and no data; when execute() reports a failure, or no
\* output, the envelope is a failure without data, also when the result holds
\* an output.
C26_EnvelopeOfWholeOperation ==
  envelope.kind = "envelope" =>
    /\ envelope.success => ("data" \notin envelope.absent /\ "error" \in envelope.absent)
    /\ ~envelope.success =>
         /\ "error" \notin envelope.absent
         /\ "data" \in envelope.absent
         /\ envelope.data = NoOutput
    /\ (result.kind = "result" /\ ~result.success) => ~envelope.success
    /\ (result.kind = "result" /\ "output" \in result.absent) => ~envelope.success
    /\ exception.kind # "none" => ~envelope.success

C26_Witness ==
  /\ result.kind = "result"
  /\ ~result.success
  /\ "output" \notin result.absent
  /\ result.output.outbound # <<>>
  /\ envelope.kind = "envelope"
  /\ ~envelope.success
  /\ "data" \in envelope.absent
  /\ envelope.error.code = "VALIDATION_ERROR"

\* C27: a public entry point called before the service is configured fails
\* with a configuration error, and the call issues no provider search and no
\* execute(): smartFlightSearch called on a module that is not initialized
\* ends as a thrown error without execute(), search() without a configuration
\* ends as an error without provider calls.
C27_FailsBeforeConfigure ==
  [][ /\ (~isInitialized /\ invocation' # invocation) =>
           /\ sphase' = "threw"
           /\ executes' = 0
      /\ (config = "null" /\ phase' # phase) =>
           /\ phase' = "error"
           /\ calls' = calls ]_vars

C27_Witness ==
  /\ invocation = 1
  /\ sphase = "executing"
  /\ executes = 1
  /\ basePath = DefaultBasePath
  /\ config = "null"
  /\ phase = "error"
  /\ error = "Service not configured"

(* -------------------- extractFlightsFromAgentSteps --------------------- *)

\* steps in the trace of one agent run
MaxSteps == 2

\* A JSON text is a list of tokens; c1..c5 each stand for the text of one
\* candidate object, "7" for a number, "x" for anything that is not JSON.
CandidateTokens == {"c1", "c2", "c3", "c4", "c5"}

\* the elements of `c , c , c`
Items(inner) == [k \in 1..((Len(inner) + 1) \div 2) |-> inner[2 * k - 1]]

IsItemList(inner) ==
  \/ inner = <<>>
  \/ /\ Len(inner) % 2 = 1
     /\ \A k \in DOMAIN inner :
          IF k % 2 = 1 THEN inner[k] \in CandidateTokens ELSE inner[k] = ","

IsArrayText(t) ==
  /\ Len(t) >= 2
  /\ t[1] = "["
  /\ t[Len(t)] = "]"
  /\ IsItemList(SubSeq(t, 2, Len(t) - 1))

\* JSON.parse(text) on the texts of the model: an array of candidates, an
\* object with a data array, another object, null, a number, or a SyntaxError
JsonParse(t) ==
  IF IsArrayText(t)
  THEN [kind |-> "array", items |-> Items(SubSeq(t, 2, Len(t) - 1))]
  ELSE IF /\ Len(t) >= 4
          /\ t[1] = "{" /\ t[2] = "data:" /\ t[Len(t)] = "}"
          /\ IsArrayText(SubSeq(t, 3, Len(t) - 1))
  THEN [kind |-> "dataObject", items |-> Items(SubSeq(t, 4, Len(t) - 2))]
  ELSE IF t \in {<<"{", "}">>, <<"{", "data:", "7", "}">>}
  THEN [kind |-> "object", items |-> <<>>]
  ELSE IF t = <<"null">> THEN [kind |-> "null", items |-> <<>>]
  ELSE IF t = <<"7">> THEN [kind |-> "number", items |-> <<>>]
  ELSE [kind |-> "SyntaxError", items |-> <<>>]

\* a content block { type, text }, or null in its place
Block(type, text, absent) == [kind |-> "block", type |-> type, text |-> text, absent |-> absent]
Text(text) == Block("text", text, {})
NullBlock == [kind |-> "null", type |-> "", text |-> <<>>, absent |-> {}]

\* the output of a tool result: content and data as far as they are set
ToolOutput(content, data, absent) == [content |-> content, data |-> data, absent |-> absent]
Content(content) == ToolOutput(content, <<>>, {"data"})
Data(data) == ToolOutput(<<>>, data, {"content"})

\* a tool result { toolName, output }, or null in its place; isArray says that
\* output is itself the array held in data
ToolResult(toolName, toolOutput, isArray, absent) ==
  [kind |-> "toolResult", toolName |-> toolName, output |-> toolOutput, isArray |-> isArray,
   absent |-> absent]
Kiwi(toolOutput) == ToolResult("kiwi_search_flight", toolOutput, FALSE, {})
NullToolResult ==
  [kind |-> "null", toolName |-> "", output |-> ToolOutput(<<>>, <<>>, {}), isArray |-> FALSE,
   absent |-> {}]

\* a step { toolResults }, or null in its place
Step(toolResults, absent) == [kind |-> "step", toolResults |-> toolResults, absent |-> absent]
NullStep == [kind |-> "null", toolResults |-> <<>>, absent |-> {}]

\* The steps of the model: a step without tool results; text blocks with an
\* array and with an object holding data, next to a block that is not text;
\* another tool before the flight-search tool; two flight-search results; a
\* text that does not decode before one that does; texts that decode to
\* nothing useful; content next to data; an output that is an array; a result
\* without output and one with an empty output; null in the place of a step,
\* of a tool result and of a content block.
StepSet ==
  {Step(<<>>, {"toolResults"}),
   Step(<<Kiwi(Content(<<Text(<<"[", "c1", ",", "c2", "]">>)>>))>>, {}),
   Step(<<Kiwi(Content(<<Text(<<"{", "data:", "[", "c3", "]", "}">>),
                         Block("image", <<"[", "c5", "]">>, {}),
                         Text(<<"[", "c4", "]">>)>>))>>, {}),
   Step(<<ToolResult("weather", Content(<<Text(<<"[", "c5", "]">>)>>), FALSE, {}),
          Kiwi(Data(<<"c2", "c1">>))>>, {}),
   Step(<<Kiwi(Content(<<Text(<<"[", "c3", "]">>)>>)), Kiwi(Data(<<"c1">>))>>, {}),
   Step(<<Kiwi(Content(<<Text(<<"[", "c1", ",">>), Text(<<"[", "c2", "]">>)>>))>>, {}),
   Step(<<Kiwi(Content(<<Text(<<"null">>), Text(<<"{", "}">>), Text(<<>>),
                         Text(<<"7">>), Block("text", <<>>, {"text"})>>))>>, {}),
   Step(<<Kiwi(ToolOutput(<<Text(<<"[", "c1", "]">>)>>, <<"c5">>, {}))>>, {}),
   Step(<<ToolResult("kiwi_search_flight", Data(<<"c4">>), TRUE, {})>>, {}),
   Step(<<ToolResult("kiwi_search_flight", ToolOutput(<<>>, <<>>, {}), FALSE, {"output"}),
          Kiwi(ToolOutput(<<>>, <<>>, {"content", "data"}))>>, {}),
   Step(<<ToolResult("weather", Content(<<NullBlock>>), FALSE, {})>>, {}),
   NullStep,
   Step(<<Kiwi(Content(<<Text(<<"[", "c1", "]">>)>>)), NullToolResult>>, {}),
   Step(<<Kiwi(Content(<<Text(<<"[", "c2", "]">>), NullBlock>>))>>, {})}

\* agentData.response: not a string, or a text
NoText == <<"undefined">>

\* The responses of the model: prose; an array inside prose; an opening
\* bracket that is never closed; an array with a trailing comma; brackets
\* around prose; two arrays; an empty array; a closing before an opening
\* bracket.
Responses ==
  {NoText,
   <<"x", "x">>,
   <<"x", "[", "c4", ",", "c5", "]", "x">>,
   <<"x", "[", "c4", ",">>,
   <<"[", "c4", ",", "]">>,
   <<"[", "x", "]">>,
   <<"[", "c4", "]", "x", "[", "c5", "]">>,
   <<"x", "[", "]">>,
   <<"]", "x", "[">>}

\* agentData { response, steps }; steps may be not set
AgentData(text, steps, absent) ==
  [kind |-> "agentData", response |-> text, steps |-> steps, absent |-> absent]

\* what one content block adds (234-245): the array, or the data array, its
\* text decodes to; JSON.parse throwing, and parsed.data of null throwing,
\* are caught
FromBlock(contentItem) ==
  IF /\ contentItem.type = "text"
     /\ "text" \notin contentItem.absent
     /\ contentItem.text # <<>>
  THEN LET parsed == JsonParse(contentItem.text)
       IN  IF parsed.kind \in {"array", "dataObject"} THEN parsed.items ELSE <<>>
  ELSE <<>>

\* what one tool result adds (230-252)
FromToolResult(tr) ==
  IF "output" \in tr.absent THEN <<>>
  ELSE IF "content" \notin tr.output.absent /\ ~tr.isArray
  THEN Flatten([k \in DOMAIN tr.output.content |-> FromBlock(tr.output.content[k])])
  ELSE IF "data" \notin tr.output.absent THEN tr.output.data
  ELSE <<>>

\* every tool result, whatever its tool (a faulty variant)
AllResults(toolResults) == toolResults

\* s.toolResults.filter((tr) => tr.toolName === 'kiwi_search_flight') (227)
KiwiResults(toolResults) ==
  SelectSeq(toolResults, LAMBDA tr : tr.toolName = "kiwi_search_flight")

\* what one step adds (219-254)
FromStep(step) ==
  IF "toolResults" \in step.absent THEN <<>>
  ELSE LET kiwiResults == KiwiResults(step.toolResults)
       IN  Flatten([k \in DOMAIN kiwiResults |-> FromToolResult(kiwiResults[k])])

\* the step makes the loop throw a TypeError: s.toolResults of null (226),
\* tr.toolName of null (227), contentItem.type of null (234); none of the
\* three is inside a try
StepThrows(step) ==
  \/ step.kind = "null"
  \/ /\ "toolResults" \notin step.absent
     /\ \/ \E k \in DOMAIN step.toolResults : step.toolResults[k].kind = "null"
        \/ \E k \in DOMAIN step.toolResults :
             LET tr == step.toolResults[k]
             IN  /\ tr.toolName = "kiwi_search_flight"
                 /\ "output" \notin tr.absent
                 /\ "content" \notin tr.output.absent
                 /\ \E j \in DOMAIN tr.output.content : tr.output.content[j].kind = "null"

\* extractFlightsFromAgentSteps(steps) (215-258)
ExtractFlightsFromAgentSteps(steps) ==
  IF \E k \in DOMAIN steps : StepThrows(steps[k])
  THEN [raised |-> TRUE, flights |-> <<>>]
  ELSE [raised |-> FALSE, flights |-> Flatten([k \in DOMAIN steps |-> FromStep(steps[k])])]

\* response.match(/\[.*\]/s): from the first opening bracket to the last
\* closing bracket, <<>> when there is no match
Match(text) ==
  LET opening == {k \in DOMAIN text : text[k] = "["}
      closing == {k \in DOMAIN text : text[k] = "]"}
  IN  IF opening = {} \/ closing = {} THEN <<>>
      ELSE LET first == CHOOSE k \in opening : \A j \in opening : k <= j
               last == CHOOSE k \in closing : \A j \in closing : j <= k
           IN  IF first < last THEN SubSeq(text, first, last) ELSE <<>>

\* a fallback without its try (a faulty variant)
FallbackUncaught(text) ==
  LET jsonMatch == Match(text)
  IN  IF jsonMatch = <<>> THEN [raised |-> FALSE, flights |-> <<>>]
      ELSE LET parsed == JsonParse(jsonMatch)
           IN  [raised |-> parsed.kind # "array", flights |-> parsed.items]

\* the fallback (179-186): the match parsed, a SyntaxError caught
Fallback(text) ==
  LET jsonMatch == Match(text)
  IN  IF jsonMatch = <<>> THEN [raised |-> FALSE, flights |-> <<>>]
      ELSE LET parsed == JsonParse(jsonMatch)
           IN  [raised |-> FALSE,
                flights |-> IF parsed.kind = "array" THEN parsed.items ELSE <<>>]

\* the candidate list of parseAndValidateResults (170-187), with the list the
\* steps gave and whether the fallback ran; raised when the extraction threw
Candidates(data) ==
  LET fromSteps == IF "steps" \in data.absent THEN [raised |-> FALSE, flights |-> <<>>]
                   ELSE ExtractFlightsFromAgentSteps(data.steps)
  IN  IF fromSteps.raised
      THEN [kind |-> "raised", flights |-> <<>>, structured |-> <<>>, fallback |-> FALSE]
      ELSE IF fromSteps.flights = <<>> /\ data.response # NoText
      THEN LET parsed == Fallback(data.response)
           IN  [kind |-> IF parsed.raised THEN "raised" ELSE "list",
                flights |-> parsed.flights, structured |-> <<>>, fallback |-> TRUE]
      ELSE [kind |-> "list", flights |-> fromSteps.flights,
            structured |-> fromSteps.flights, fallback |-> FALSE]

\* parseAndValidateResults up to its validation loop (170-187)
ParseAgentData ==
  /\ agentData.kind = "agentData"
  /\ extracted.kind = "none"
  /\ extracted' = Candidates(agentData)
  /\ UNCHANGED <<agentData, catalogue, impl, input, phase, pairs, status, calls, resp,
                 allResults, dirState, merged, out, response, error, valVars, enrichVars,
                 smartVars>>

InitExtract ==
  /\ impl = "agent"
  /\ catalogue = {F1, F2, F3}
  /\ input = [flyFrom |-> <<"MXP">>, flyTo |-> <<"BCN">>, roundTrip |-> FALSE]
  /\ Idle
  /\ ValIdle
  /\ EnrichIdle
  /\ SmartIdle
  /\ \E r \in Responses, ab \in SUBSET {"steps"} :
       \E steps \in (IF "steps" \in ab THEN {<<>>} ELSE SeqsUpTo(StepSet, MaxSteps)) :
         agentData = AgentData(r, steps, ab)
  /\ extracted = NoExtraction

NextExtract == ParseAgentData

SpecExtract == InitExtract /\ [][NextExtract]_vars

\* the candidates a content block holds: those of a text block that decodes
\* to an array or to an object with a data array
BlockCandidates(b) ==
  IF b.kind = "block" /\ b.type = "text" /\ "text" \notin b.absent
  THEN LET decoded == JsonParse(b.text)
       IN  IF decoded.kind \in {"array", "dataObject"} THEN decoded.items ELSE <<>>
  ELSE <<>>

\* the candidates a tool result holds: of the flight-search tool only; those
\* of its content blocks in order, or its data array when it has no content
ResultCandidates(tr) ==
  IF tr.kind # "toolResult" \/ tr.toolName # "kiwi_search_flight" \/ "output" \in tr.absent
  THEN <<>>
  ELSE IF "content" \notin tr.output.absent
  THEN Flatten([k \in DOMAIN tr.output.content |-> BlockCandidates(tr.output.content[k])])
  ELSE IF "data" \notin tr.output.absent THEN tr.output.data
  ELSE <<>>

StepCandidates(step) ==
  IF step.kind # "step" \/ "toolResults" \in step.absent THEN <<>>
  ELSE Flatten([k \in DOMAIN step.toolResults |-> ResultCandidates(step.toolResults[k])])

\* the candidates of a trace, in step order, then tool-result order, then
\* content-block order
TraceCandidates(steps) == Flatten([k \in DOMAIN steps |-> StepCandidates(steps[k])])

\* every step, tool result and content block of the trace is an object
WellFormed(steps) ==
  \A k \in DOMAIN steps :
    /\ steps[k].kind = "step"
    /\ \A i \in DOMAIN steps[k].toolResults :
         /\ steps[k].toolResults[i].kind = "toolResult"
         /\ \A j \in DOMAIN steps[k].toolResults[i].output.content :
              steps[k].toolResults[i].output.content[j].kind = "block"

\* parseAndValidateResults was called with a trace and has its candidates
Extracted == extracted.kind # "none" /\ "steps" \notin agentData.absent

\* C28: for a trace whose steps, tool results and content blocks are objects
\* the extractor gives the concatenation, in step order, then tool-result
\* order, then content-block order, of the candidates of every text block
\* that decodes to an array or to an object with a data array and of every
\* tool result with a data array and no content; other tools add nothing.
C28_ConcatenatedInOrder ==
  (Extracted /\ WellFormed(agentData.steps)) =>
    /\ extracted.kind = "list"
    /\ extracted.structured = TraceCandidates(agentData.steps)

C28_Witness ==
  /\ Extracted
  /\ Len(agentData.steps) = 2
  /\ WellFormed(agentData.steps)
  /\ Len(agentData.steps[1].toolResults) = 1
  /\ Len(agentData.steps[1].toolResults[1].output.content) = 3
  /\ Len(agentData.steps[2].toolResults) = 2
  /\ agentData.steps[2].toolResults[1].toolName = "weather"
  /\ extracted.structured = <<"c3", "c4", "c2", "c1">>
  /\ extracted.flights = <<"c3", "c4", "c2", "c1">>

\* C29: whatever part of a trace is malformed, extraction does not fail and
\* gives the candidates of all the well-formed blocks of the trace.
C29_OnlyTheBlockIsLost ==
  Extracted =>
    /\ extracted.kind = "list"
    /\ extracted.structured = TraceCandidates(agentData.steps)

C29_Witness ==
  /\ Extracted
  /\ Len(agentData.steps) = 2
  /\ TraceCandidates(<<agentData.steps[1]>>) = <<"c1", "c2">>
  /\ agentData.steps[2] = NullStep
  /\ extracted.kind = "raised"
  /\ extracted.flights = <<>>

\* some stretch of the text is a JSON array with the items
HoldsArray(text, items) ==
  \E i, j \in DOMAIN text :
    /\ i < j
    /\ IsArrayText(SubSeq(text, i, j))
    /\ Items(SubSeq(text, i + 1, j - 1)) = items

\* C30: the fallback on the response text runs only when the trace gave no
\* candidates, and it does not raise: candidates come out of it only from a
\* JSON array in the text, a text without brackets or with a malformed array
\* gives the empty list.
C30_FallbackNeverRaises ==
  (extracted.kind # "none" /\ extracted.fallback) =>
    /\ "steps" \in agentData.absent \/ TraceCandidates(agentData.steps) = <<>>
    /\ extracted.structured = <<>>
    /\ extracted.kind = "list"
    /\ extracted.flights # <<>> => HoldsArray(agentData.response, extracted.flights)
    /\ ("[" \notin Range(agentData.response) \/ "]" \notin Range(agentData.response)) =>
         extracted.flights = <<>>
    /\ agentData.response \in {<<"[", "c4", ",", "]">>, <<"[", "x", "]">>} =>
         extracted.flights = <<>>

C30_Witness ==
  /\ extracted.kind = "list"
  /\ extracted.fallback
  /\ agentData.response = <<"[", "c4", ",", "]">>
  /\ Len(agentData.steps) = 1
  /\ "toolResults" \in agentData.steps[1].absent
  /\ extracted.flights = <<>>

\* C31: for a round trip the pairs of the return batch are the pairs of the
\* outbound batch with origin and destination swapped, one return pair (d, o)
\* for each outbound pair (o, d): as many return calls are started as
\* outbound calls, each from an airport of flyTo to an airport of flyFrom.
C31_ReturnPairsSwapped ==
  (impl = "sdk" /\ input.roundTrip /\ phase # "idle") =>
    /\ Len(pairs["return"]) = Len(input.flyFrom) * Len(input.flyTo)
    /\ Len(pairs["return"]) = Len(pairs["outbound"])
    /\ Len(status["return"]) = Len(status["outbound"])
    /\ \A k \in DOMAIN pairs["outbound"] :
         /\ pairs["return"][k].from = pairs["outbound"][k].to
         /\ pairs["return"][k].to = pairs["outbound"][k].from
    /\ \A k \in DOMAIN pairs["return"] :
         /\ pairs["return"][k].from \in Range(input.flyTo)
         /\ pairs["return"][k].to \in Range(input.flyFrom)
    /\ pairs["outbound"] = CrossProduct(input.flyFrom, input.flyTo)

C31_Witness ==
  /\ impl = "sdk"
  /\ input.roundTrip
  /\ phase = "searching"
  /\ Len(input.flyFrom) = 2
  /\ Len(input.flyTo) = 2
  /\ input.flyFrom[1] # input.flyFrom[2]
  /\ input.flyTo[1] # input.flyTo[2]
  /\ Len(pairs["return"]) = 4
  /\ pairs["return"][2] = [from |-> input.flyTo[2], to |-> input.flyFrom[1]]
  /\ pairs["return"][3] = [from |-> input.flyTo[1], to |-> input.flyFrom[2]]


\* ---------------------------------------------------------------------------
\* Batches of per-pair calls (executeDirectionalSearch 371-398, search 324-333)
\* ---------------------------------------------------------------------------

OtherDirection(d) == IF d = "outbound" THEN "return" ELSE "outbound"

InFlight(d) == {i \in DOMAIN status[d] : status[d][i] = "pending"}

\* every call that was started and has not reached its provider can do so now,
\* whatever the other calls are doing
NoConcurrencyCap ==
  phase = "searching" =>
    \A d \in Directions : \A i \in DOMAIN status[d] :
      status[d][i] = "started" => ENABLED IssueCall(d, i)

\* the list of a finished batch is made of its own calls' flights only
OwnFlightsOnly ==
  \A d \in Directions :
    dirState[d] = "done" =>
      Range(out[d]) \subseteq {Tag(Flat(d)[p], d) : p \in DOMAIN Flat(d)}

\* a step of one batch (a call issued, a call settled with a result or a
\* failure, the batch joined) leaves everything of the other batch as it was
BatchStepIsLocal ==
  phase = "searching" =>
    \A d \in Directions :
      (status'[d] # status[d] \/ resp'[d] # resp[d] \/ dirState'[d] # dirState[d]) =>
        LET e == OtherDirection(d)
        IN  /\ out'[e] = out[e]
            /\ merged'[e] = merged[e]
            /\ dirState'[e] = dirState[e]
            /\ status'[e] = status[e]
            /\ resp'[e] = resp[e]
            /\ calls'[e] = calls[e]

\* C32: the per-pair calls are issued with no concurrency cap and without
\* waiting for one another (a started call can always go on to its provider,
\* so all calls of a direction, and calls of both batches of a round trip, are
\* in flight together), and what happens in one batch, result or failure,
\* never changes the other batch's list.
C32_UncappedIndependentBatches ==
  /\ [](NoConcurrencyCap /\ OwnFlightsOnly)
  /\ [][BatchStepIsLocal]_vars

\* both calls of the outbound batch and both calls of the return batch are in
\* flight at once
C32_Witness ==
  /\ impl = "sdk"
  /\ input.roundTrip
  /\ phase = "searching"
  /\ Len(pairs["outbound"]) = 2
  /\ InFlight("outbound") = {1, 2}
  /\ InFlight("return") = {1, 2}


\* the first JSON array literal embedded in the text: from the first opening
\* bracket to the first closing bracket after it, <<>> when there is none
FirstArrayLiteral(text) ==
  LET opening == {k \in DOMAIN text : text[k] = "["}
  IN  IF opening = {} THEN <<>>
      ELSE LET first == CHOOSE k \in opening : \A j \in opening : k <= j
               closing == {k \in DOMAIN text : k > first /\ text[k] = "]"}
           IN  IF closing = {} THEN <<>>
               ELSE SubSeq(text, first, CHOOSE k \in closing : \A j \in closing : k <= j)

\* the text holds two array literals with other text between them
SeveralArrays(text) ==
  \E i, j, k, l \in DOMAIN text :
    /\ i < j /\ j + 1 < k /\ k < l
    /\ IsArrayText(SubSeq(text, i, j))
    /\ IsArrayText(SubSeq(text, k, l))
    /\ \A m \in (j + 1)..(k - 1) : text[m] \notin {"[", "]"}

\* C33: when the fallback runs on a response text that holds several JSON
\* array literals separated by other text, the candidates are the items of the
\* first array literal of the text.
C33_FirstArrayWins ==
  (extracted.kind # "none" /\ extracted.fallback /\ SeveralArrays(agentData.response)) =>
    /\ extracted.kind = "list"
    /\ extracted.flights = JsonParse(FirstArrayLiteral(agentData.response)).items

\* the fallback ran on a text with the arrays [c4] and [c5]: the match spans
\* both, does not decode, and no candidate comes out
C33_Witness ==
  /\ extracted.kind = "list"
  /\ extracted.fallback
  /\ agentData.response = <<"[", "c4", "]", "x", "[", "c5", "]">>
  /\ Match(agentData.response) = agentData.response
  /\ JsonParse(FirstArrayLiteral(agentData.response)).items = <<"c4">>
  /\ extracted.flights = <<>>


\* execute() resolved and smartFlightSearch returned
Resolved == envelope.kind = "envelope" /\ result.kind = "result"

\* the result reports success and carries an output
SuccessWithOutput == result.success /\ "output" \notin result.absent

\* the error a failure envelope has for the result: the reported message and
\* code, or the defaults
ReportedOrDefault ==
  IF "error" \in result.absent
  THEN EnvelopeError("Unknown error occurred", "UNKNOWN_ERROR")
  ELSE EnvelopeError(result.error.message, result.error.code)

Enriched == output.tripType # "none" /\ enriched.tripType # "none"

\* C35: enrichment is idempotent: enriching an enriched output gives the
\* enriched output again, whether the references resolve or not and whether
\* the link of the resolved flight is empty or not.
C35_EnrichIdempotent ==
  Enriched => EnrichOutput(enriched) = enriched

\* the outbound reference resolves to a flight with an empty link: the first
\* enrichment sets the primary link to the empty string, which the second
\* does not take as given
C35_Witness ==
  /\ Enriched
  /\ output.outbound = <<LinkedFlight("F1", "")>>
  /\ output.recommendation.outboundFlightId = "F1"
  /\ "deepLink" \in output.recommendation.absent
  /\ "deepLink" \notin enriched.recommendation.absent
  /\ enriched.recommendation.deepLink = ""
  /\ ~KeepsLink(enriched.recommendation)
  /\ EnrichOutput(enriched) = enriched

\* the primary link is empty or not set, the outbound reference does not
\* resolve, and the return reference is set and resolves
ReturnAloneResolves(rec) ==
  /\ ~KeepsLink(rec)
  /\ ~Resolves(rec.outboundFlightId)
  /\ "returnFlightId" \notin rec.absent
  /\ rec.returnFlightId # ""
  /\ Resolves(rec.returnFlightId)

\* C36: a recommendation with an empty primary link whose outboundFlightId
\* does not resolve and whose returnFlightId resolves comes back unchanged: no
\* link field is set, the return-specific one included.
C36_ReturnAloneUnchanged ==
  Enriched =>
    /\ ReturnAloneResolves(output.recommendation) =>
         enriched.recommendation = output.recommendation
    /\ \A k \in DOMAIN output.alternatives :
         ReturnAloneResolves(output.alternatives[k]) =>
           enriched.alternatives[k] = output.alternatives[k]

C36_Witness ==
  /\ Enriched
  /\ output.recommendation.outboundFlightId = "F9"
  /\ output.recommendation.returnFlightId = "F2"
  /\ output.return = <<LinkedFlight("F2", "https://book/F2")>>
  /\ "deepLink" \notin output.recommendation.absent
  /\ output.recommendation.deepLink = ""
  /\ "returnDeepLink" \in enriched.recommendation.absent
  /\ enriched.recommendation = output.recommendation

Registers == schemaCalls' = schemaCalls + 1

\* C38: the initialization of the smart search is one-shot: once
\* initializeSmartSearch has succeeded, no later call, of initializeSmartSearch
\* or of smartFlightSearch, changes basePath, registers the schemas again or
\* unsets the flag; smartFlightSearch on a module that is not initialized
\* initializes it with the default base path before it calls execute(), and
\* execute() is called on an initialized module only; an initialization that
\* throws leaves the flag unset and basePath as it was.
C38_OneShotInitialization ==
  /\ [](/\ isInitialized => (schemaCalls >= 1 /\ basePath # "")
        /\ ~isInitialized => basePath = ""
        /\ sphase = "executing" => isInitialized)
  /\ [][ /\ isInitialized =>
              /\ isInitialized'
              /\ basePath' = basePath
              /\ schemaCalls' = schemaCalls
         /\ (~isInitialized /\ invocation' # invocation /\ initOutcome' # "threw") =>
              /\ Registers
              /\ isInitialized'
              /\ basePath' = DefaultBasePath
              /\ executes' = 1
         /\ (Registers /\ initOutcome' = "threw") =>
              /\ ~isInitialized'
              /\ basePath' = basePath
              /\ executes' # 1 ]_vars

\* a first initialization threw, a second one set the caller's base path, and
\* a call of smartFlightSearch after it runs on that path
C38_Witness ==
  /\ isInitialized
  /\ schemaCalls = 2
  /\ basePath = "/srv/one-flight/src"
  /\ invocation >= 1
  /\ sphase = "executing"
  /\ executes = 1


\* a call of the direction failed, another came back with flights
MixedBatch(d) ==
  /\ \E i \in DOMAIN resp[d] : resp[d][i].kind = "throw"
  /\ \E i \in DOMAIN resp[d] : resp[d][i].kind = "ok" /\ resp[d][i].data # <<>>

\* C39: when every provider call a search issues settles, by returning or by
\* failing, the search returns a result to its caller, one way and round trip,
\* whichever pairs succeed and whichever fail.
C39_SearchReturns ==
  (phase = "searching") ~> (phase = "done" /\ error = "none")

\* a round trip has returned its two lists after a failed call and a call with
\* flights in each batch
C39_Witness ==
  /\ impl = "sdk"
  /\ input.roundTrip
  /\ phase = "done"
  /\ MixedBatch("outbound")
  /\ MixedBatch("return")
  /\ response.outbound # <<>>
  /\ response.return # <<>>

====
